---- MODULE Spec2Model ----
(***************************************************************************)
(* A model of the QAaaS test agents: UnitTestAgent and IntegrationAgent    *)
(* (runTests, project detection, command resolution, the process runner    *)
(* and the result parsers).                                                *)
(*                                                                         *)
(* Texts.  A text (stdout, stderr) is a sequence of lines, each ended by   *)
(* "\n"; a line is the sequence of words that line.split(' ') gives, so    *)
(* that an indentation of two blanks is two leading empty words.  A word   *)
(* is a string; Chars spells it, and every substring test and every        *)
(* regular expression of the source is computed on the spelling.  A glyph  *)
(* of the source that is not ASCII is one character, named by its code     *)
(* point (U2713 is the check mark).  A regular expression is matched       *)
(* within one line.  Durations are wall-clock values and are left out of   *)
(* the results, and so are the display fields of a case (suite, duration,  *)
(* failureMessages).                                                       *)
(***************************************************************************)
EXTENDS Integers, Sequences, FiniteSets, TLC

\* ------------------------------------------------------------------ bounds
MaxLines == 2

\* ------------------------------------------------------------- characters
\* BEGIN Chars
Chars(w) ==
  CASE w = "PASS" -> <<"P", "A", "S", "S">>
    [] w = "FAIL" -> <<"F", "A", "I", "L">>
    [] w = "ERROR" -> <<"E", "R", "R", "O", "R">>
    [] w = "FAILURE" -> <<"F", "A", "I", "L", "U", "R", "E">>
    [] w = "Exception" -> <<"E", "x", "c", "e", "p", "t", "i", "o", "n">>
    [] w = "pass" -> <<"p", "a", "s", "s">>
    [] w = "fail" -> <<"f", "a", "i", "l">>
    [] w = "error" -> <<"e", "r", "r", "o", "r">>
    [] w = "test" -> <<"t", "e", "s", "t">>
    [] w = "spec" -> <<"s", "p", "e", "c">>
    [] w = "should" -> <<"s", "h", "o", "u", "l", "d">>
    [] w = "it" -> <<"i", "t">>
    [] w = "scenario" -> <<"s", "c", "e", "n", "a", "r", "i", "o">>
    [] w = "PASSED" -> <<"P", "A", "S", "S", "E", "D">>
    [] w = "FAILED" -> <<"F", "A", "I", "L", "E", "D">>
    [] w = "SKIPPED" -> <<"S", "K", "I", "P", "P", "E", "D">>
    [] w = "collected" -> <<"c", "o", "l", "l", "e", "c", "t", "e", "d">>
    [] w = "items" -> <<"i", "t", "e", "m", "s">>
    [] w = "passed" -> <<"p", "a", "s", "s", "e", "d">>
    [] w = "failed" -> <<"f", "a", "i", "l", "e", "d">>
    [] w = "skipped" -> <<"s", "k", "i", "p", "p", "e", "d">>
    [] w = "0" -> <<"0">>
    [] w = "1" -> <<"1">>
    [] w = "2" -> <<"2">>
    [] w = "3" -> <<"3">>
    [] w = "Tests" -> <<"T", "e", "s", "t", "s">>
    [] w = "run:" -> <<"r", "u", "n", ":">>
    [] w = "," -> <<",">>
    [] w = "Failures:" -> <<"F", "a", "i", "l", "u", "r", "e", "s", ":">>
    [] w = "Errors:" -> <<"E", "r", "r", "o", "r", "s", ":">>
    [] w = "Skipped:" -> <<"S", "k", "i", "p", "p", "e", "d", ":">>
    [] w = "result:" -> <<"r", "e", "s", "u", "l", "t", ":">>
    [] w = "passed;" -> <<"p", "a", "s", "s", "e", "d", ";">>
    [] w = "failed;" -> <<"f", "a", "i", "l", "e", "d", ";">>
    [] w = "ignored" -> <<"i", "g", "n", "o", "r", "e", "d">>
    [] w = "..." -> <<".", ".", ".">>
    [] w = "ok" -> <<"o", "k">>
    [] w = "ok." -> <<"o", "k", ".">>
    [] w = "FAILED." -> <<"F", "A", "I", "L", "E", "D", ".">>
    [] w = "---" -> <<"-", "-", "-">>
    [] w = "PASS:" -> <<"P", "A", "S", "S", ":">>
    [] w = "FAIL:" -> <<"F", "A", "I", "L", ":">>
    [] w = "SKIP:" -> <<"S", "K", "I", "P", ":">>
    [] w = "Test" -> <<"T", "e", "s", "t">>
    [] w = "SKIP" -> <<"S", "K", "I", "P">>
    [] w = "TestAdd" -> <<"T", "e", "s", "t", "A", "d", "d">>
    [] w = "TestSub" -> <<"T", "e", "s", "t", "S", "u", "b">>
    [] w = "{\"success\":true,\"numTotalTests\":1,\"numPassedTests\":1,\"numFailedTests\":0,\"numPendingTests\":0,\"testResults\":[{\"name\":\"a\",\"assertionResults\":[{\"title\":\"adds\",\"status\":\"passed\"}]}]}" -> <<"{", "\"", "s", "u", "c", "c", "e", "s", "s", "\"", ":", "t", "r", "u", "e", ",", "\"", "n", "u", "m", "T", "o", "t", "a", "l", "T", "e", "s", "t", "s", "\"", ":", "1", ",", "\"", "n", "u", "m", "P", "a", "s", "s", "e", "d", "T", "e", "s", "t", "s", "\"", ":", "1", ",", "\"", "n", "u", "m", "F", "a", "i", "l", "e", "d", "T", "e", "s", "t", "s", "\"", ":", "0", ",", "\"", "n", "u", "m", "P", "e", "n", "d", "i", "n", "g", "T", "e", "s", "t", "s", "\"", ":", "0", ",", "\"", "t", "e", "s", "t", "R", "e", "s", "u", "l", "t", "s", "\"", ":", "[", "{", "\"", "n", "a", "m", "e", "\"", ":", "\"", "a", "\"", ",", "\"", "a", "s", "s", "e", "r", "t", "i", "o", "n", "R", "e", "s", "u", "l", "t", "s", "\"", ":", "[", "{", "\"", "t", "i", "t", "l", "e", "\"", ":", "\"", "a", "d", "d", "s", "\"", ",", "\"", "s", "t", "a", "t", "u", "s", "\"", ":", "\"", "p", "a", "s", "s", "e", "d", "\"", "}", "]", "}", "]", "}">>
    [] w = "{\"success\":false,\"numTotalTests\":2,\"numPassedTests\":1,\"numFailedTests\":1,\"numPendingTests\":0,\"testResults\":[{\"name\":\"a\",\"assertionResults\":[{\"title\":\"adds\",\"status\":\"passed\"},{\"title\":\"subs\",\"status\":\"failed\"}]}]}" -> <<"{", "\"", "s", "u", "c", "c", "e", "s", "s", "\"", ":", "f", "a", "l", "s", "e", ",", "\"", "n", "u", "m", "T", "o", "t", "a", "l", "T", "e", "s", "t", "s", "\"", ":", "2", ",", "\"", "n", "u", "m", "P", "a", "s", "s", "e", "d", "T", "e", "s", "t", "s", "\"", ":", "1", ",", "\"", "n", "u", "m", "F", "a", "i", "l", "e", "d", "T", "e", "s", "t", "s", "\"", ":", "1", ",", "\"", "n", "u", "m", "P", "e", "n", "d", "i", "n", "g", "T", "e", "s", "t", "s", "\"", ":", "0", ",", "\"", "t", "e", "s", "t", "R", "e", "s", "u", "l", "t", "s", "\"", ":", "[", "{", "\"", "n", "a", "m", "e", "\"", ":", "\"", "a", "\"", ",", "\"", "a", "s", "s", "e", "r", "t", "i", "o", "n", "R", "e", "s", "u", "l", "t", "s", "\"", ":", "[", "{", "\"", "t", "i", "t", "l", "e", "\"", ":", "\"", "a", "d", "d", "s", "\"", ",", "\"", "s", "t", "a", "t", "u", "s", "\"", ":", "\"", "p", "a", "s", "s", "e", "d", "\"", "}", ",", "{", "\"", "t", "i", "t", "l", "e", "\"", ":", "\"", "s", "u", "b", "s", "\"", ",", "\"", "s", "t", "a", "t", "u", "s", "\"", ":", "\"", "f", "a", "i", "l", "e", "d", "\"", "}", "]", "}", "]", "}">>
    [] w = "{\"success\":true,\"numTotalTests\":2,\"numPassedTests\":1,\"numFailedTests\":0,\"numPendingTests\":0,\"numTodoTests\":1,\"testResults\":[{\"name\":\"a\",\"assertionResults\":[{\"title\":\"adds\",\"status\":\"passed\"},{\"title\":\"subs\",\"status\":\"todo\"}]}]}" -> <<"{", "\"", "s", "u", "c", "c", "e", "s", "s", "\"", ":", "t", "r", "u", "e", ",", "\"", "n", "u", "m", "T", "o", "t", "a", "l", "T", "e", "s", "t", "s", "\"", ":", "2", ",", "\"", "n", "u", "m", "P", "a", "s", "s", "e", "d", "T", "e", "s", "t", "s", "\"", ":", "1", ",", "\"", "n", "u", "m", "F", "a", "i", "l", "e", "d", "T", "e", "s", "t", "s", "\"", ":", "0", ",", "\"", "n", "u", "m", "P", "e", "n", "d", "i", "n", "g", "T", "e", "s", "t", "s", "\"", ":", "0", ",", "\"", "n", "u", "m", "T", "o", "d", "o", "T", "e", "s", "t", "s", "\"", ":", "1", ",", "\"", "t", "e", "s", "t", "R", "e", "s", "u", "l", "t", "s", "\"", ":", "[", "{", "\"", "n", "a", "m", "e", "\"", ":", "\"", "a", "\"", ",", "\"", "a", "s", "s", "e", "r", "t", "i", "o", "n", "R", "e", "s", "u", "l", "t", "s", "\"", ":", "[", "{", "\"", "t", "i", "t", "l", "e", "\"", ":", "\"", "a", "d", "d", "s", "\"", ",", "\"", "s", "t", "a", "t", "u", "s", "\"", ":", "\"", "p", "a", "s", "s", "e", "d", "\"", "}", ",", "{", "\"", "t", "i", "t", "l", "e", "\"", ":", "\"", "s", "u", "b", "s", "\"", ",", "\"", "s", "t", "a", "t", "u", "s", "\"", ":", "\"", "t", "o", "d", "o", "\"", "}", "]", "}", "]", "}">>
    [] w = "{\"numTotalTests\":1}" -> <<"{", "\"", "n", "u", "m", "T", "o", "t", "a", "l", "T", "e", "s", "t", "s", "\"", ":", "1", "}">>
    [] w = "{\"stats\":{\"tests\":1,\"passes\":1,\"failures\":0,\"pending\":0},\"passes\":[{\"title\":\"adds\",\"fullTitle\":\"math_adds\"}],\"failures\":[],\"pending\":[]}" -> <<"{", "\"", "s", "t", "a", "t", "s", "\"", ":", "{", "\"", "t", "e", "s", "t", "s", "\"", ":", "1", ",", "\"", "p", "a", "s", "s", "e", "s", "\"", ":", "1", ",", "\"", "f", "a", "i", "l", "u", "r", "e", "s", "\"", ":", "0", ",", "\"", "p", "e", "n", "d", "i", "n", "g", "\"", ":", "0", "}", ",", "\"", "p", "a", "s", "s", "e", "s", "\"", ":", "[", "{", "\"", "t", "i", "t", "l", "e", "\"", ":", "\"", "a", "d", "d", "s", "\"", ",", "\"", "f", "u", "l", "l", "T", "i", "t", "l", "e", "\"", ":", "\"", "m", "a", "t", "h", "_", "a", "d", "d", "s", "\"", "}", "]", ",", "\"", "f", "a", "i", "l", "u", "r", "e", "s", "\"", ":", "[", "]", ",", "\"", "p", "e", "n", "d", "i", "n", "g", "\"", ":", "[", "]", "}">>
    [] w = "{\"stats\":{\"tests\":2,\"passes\":1,\"failures\":1,\"pending\":0},\"passes\":[{\"title\":\"adds\",\"fullTitle\":\"math_adds\"}],\"failures\":[{\"title\":\"subs\",\"fullTitle\":\"math_subs\"}],\"pending\":[]}" -> <<"{", "\"", "s", "t", "a", "t", "s", "\"", ":", "{", "\"", "t", "e", "s", "t", "s", "\"", ":", "2", ",", "\"", "p", "a", "s", "s", "e", "s", "\"", ":", "1", ",", "\"", "f", "a", "i", "l", "u", "r", "e", "s", "\"", ":", "1", ",", "\"", "p", "e", "n", "d", "i", "n", "g", "\"", ":", "0", "}", ",", "\"", "p", "a", "s", "s", "e", "s", "\"", ":", "[", "{", "\"", "t", "i", "t", "l", "e", "\"", ":", "\"", "a", "d", "d", "s", "\"", ",", "\"", "f", "u", "l", "l", "T", "i", "t", "l", "e", "\"", ":", "\"", "m", "a", "t", "h", "_", "a", "d", "d", "s", "\"", "}", "]", ",", "\"", "f", "a", "i", "l", "u", "r", "e", "s", "\"", ":", "[", "{", "\"", "t", "i", "t", "l", "e", "\"", ":", "\"", "s", "u", "b", "s", "\"", ",", "\"", "f", "u", "l", "l", "T", "i", "t", "l", "e", "\"", ":", "\"", "m", "a", "t", "h", "_", "s", "u", "b", "s", "\"", "}", "]", ",", "\"", "p", "e", "n", "d", "i", "n", "g", "\"", ":", "[", "]", "}">>
    [] w = "{\"stats\":{\"tests\":1,\"passes\":1,\"failures\":0,\"pending\":0},\"passes\":[{\"title\":\"adds\"}]}" -> <<"{", "\"", "s", "t", "a", "t", "s", "\"", ":", "{", "\"", "t", "e", "s", "t", "s", "\"", ":", "1", ",", "\"", "p", "a", "s", "s", "e", "s", "\"", ":", "1", ",", "\"", "f", "a", "i", "l", "u", "r", "e", "s", "\"", ":", "0", ",", "\"", "p", "e", "n", "d", "i", "n", "g", "\"", ":", "0", "}", ",", "\"", "p", "a", "s", "s", "e", "s", "\"", ":", "[", "{", "\"", "t", "i", "t", "l", "e", "\"", ":", "\"", "a", "d", "d", "s", "\"", "}", "]", "}">>
    [] w = "{\"passes\":[]}" -> <<"{", "\"", "p", "a", "s", "s", "e", "s", "\"", ":", "[", "]", "}">>
    [] w = "null" -> <<"n", "u", "l", "l">>
    [] w = "adds" -> <<"a", "d", "d", "s">>
    [] w = "subs" -> <<"s", "u", "b", "s">>
    [] w = "works" -> <<"w", "o", "r", "k", "s">>
    [] w = "warning" -> <<"w", "a", "r", "n", "i", "n", "g">>
    [] w = "passed," -> <<"p", "a", "s", "s", "e", "d", ",">>
    [] w = "t.py::test_a" -> <<"t", ".", "p", "y", ":", ":", "t", "e", "s", "t", "_", "a">>
    [] w = "t.py::test_b" -> <<"t", ".", "p", "y", ":", ":", "t", "e", "s", "t", "_", "b">>
    [] w = "2," -> <<"2", ",">>
    [] w = "3," -> <<"3", ",">>
    [] w = "1," -> <<"1", ",">>
    [] w = "0," -> <<"0", ",">>
    [] w = "BUILD" -> <<"B", "U", "I", "L", "D">>
    [] w = "ignored;" -> <<"i", "g", "n", "o", "r", "e", "d", ";">>
    [] w = "muls" -> <<"m", "u", "l", "s">>
    [] w = "TestMul" -> <<"T", "e", "s", "t", "M", "u", "l">>
    [] w = "repository-empty-check" -> <<"r", "e", "p", "o", "s", "i", "t", "o", "r", "y", "-", "e", "m", "p", "t", "y", "-", "c", "h", "e", "c", "k">>
    [] w = "U2713" -> <<"U2713">>
    [] w = "U2717" -> <<"U2717">>
    [] w = "U2715" -> <<"U2715">>
    [] w = "U2716" -> <<"U2716">>
    [] w = "U25CB" -> <<"U25CB">>
    [] w = "-" -> <<"-">>
    [] w = "passing" -> <<"p", "a", "s", "s", "i", "n", "g">>
    [] w = "failing" -> <<"f", "a", "i", "l", "i", "n", "g">>
    [] w = "pending" -> <<"p", "e", "n", "d", "i", "n", "g">>
    [] w = "(Run" -> <<"(", "R", "u", "n">>
    [] w = "Finished)" -> <<"F", "i", "n", "i", "s", "h", "e", "d", ")">>
    [] w = "/" -> <<"/">>
    [] w = "Tests:" -> <<"T", "e", "s", "t", "s", ":">>
    [] w = "total" -> <<"t", "o", "t", "a", "l">>
    [] w = "scenarios" -> <<"s", "c", "e", "n", "a", "r", "i", "o", "s">>
    [] w = "steps" -> <<"s", "t", "e", "p", "s">>
    [] w = "Feature:" -> <<"F", "e", "a", "t", "u", "r", "e", ":">>
    [] w = "Scenario:" -> <<"S", "c", "e", "n", "a", "r", "i", "o", ":">>
    [] w = "exited" -> <<"e", "x", "i", "t", "e", "d">>
    [] w = "with" -> <<"w", "i", "t", "h">>
    [] w = "code" -> <<"c", "o", "d", "e">>
    [] w = "docker" -> <<"d", "o", "c", "k", "e", "r">>
    [] w = "compose" -> <<"c", "o", "m", "p", "o", "s", "e">>
    [] w = "|" -> <<"|">>
    [] w = "Container:" -> <<"C", "o", "n", "t", "a", "i", "n", "e", "r", ":">>
    [] w = "login" -> <<"l", "o", "g", "i", "n">>
    [] w = "logout" -> <<"l", "o", "g", "o", "u", "t">>
    [] w = "web" -> <<"w", "e", "b">>
    [] w = "db" -> <<"d", "b">>
    [] w = "api" -> <<"a", "p", "i">>
    [] w = "LoginTest" -> <<"L", "o", "g", "i", "n", "T", "e", "s", "t">>
    [] w = "CartTest" -> <<"C", "a", "r", "t", "T", "e", "s", "t">>
    [] w = "4" -> <<"4">>
    [] w = "5" -> <<"5">>
    [] w = "6" -> <<"6">>
    [] w = "7" -> <<"7">>
    [] w = "8" -> <<"8">>
    [] w = "9" -> <<"9">>
    [] w = "A" -> <<"A">>
    [] w = "a" -> <<"a">>
    [] w = "B" -> <<"B">>
    [] w = "b" -> <<"b">>
    [] w = "C" -> <<"C">>
    [] w = "c" -> <<"c">>
    [] w = "D" -> <<"D">>
    [] w = "d" -> <<"d">>
    [] w = "E" -> <<"E">>
    [] w = "e" -> <<"e">>
    [] w = "F" -> <<"F">>
    [] w = "f" -> <<"f">>
    [] w = "G" -> <<"G">>
    [] w = "g" -> <<"g">>
    [] w = "H" -> <<"H">>
    [] w = "h" -> <<"h">>
    [] w = "I" -> <<"I">>
    [] w = "i" -> <<"i">>
    [] w = "J" -> <<"J">>
    [] w = "j" -> <<"j">>
    [] w = "K" -> <<"K">>
    [] w = "k" -> <<"k">>
    [] w = "L" -> <<"L">>
    [] w = "l" -> <<"l">>
    [] w = "M" -> <<"M">>
    [] w = "m" -> <<"m">>
    [] w = "N" -> <<"N">>
    [] w = "n" -> <<"n">>
    [] w = "O" -> <<"O">>
    [] w = "o" -> <<"o">>
    [] w = "P" -> <<"P">>
    [] w = "p" -> <<"p">>
    [] w = "Q" -> <<"Q">>
    [] w = "q" -> <<"q">>
    [] w = "R" -> <<"R">>
    [] w = "r" -> <<"r">>
    [] w = "S" -> <<"S">>
    [] w = "s" -> <<"s">>
    [] w = "T" -> <<"T">>
    [] w = "t" -> <<"t">>
    [] w = "U" -> <<"U">>
    [] w = "u" -> <<"u">>
    [] w = "V" -> <<"V">>
    [] w = "v" -> <<"v">>
    [] w = "W" -> <<"W">>
    [] w = "w" -> <<"w">>
    [] w = "X" -> <<"X">>
    [] w = "x" -> <<"x">>
    [] w = "Y" -> <<"Y">>
    [] w = "y" -> <<"y">>
    [] w = "Z" -> <<"Z">>
    [] w = "z" -> <<"z">>
    [] w = "" -> <<>>
    [] w = "_" -> <<"_">>
    [] w = "todo" -> <<"t", "o", "d", "o">>
    [] w = "jest" -> <<"j", "e", "s", "t">>
    [] w = "mocha" -> <<"m", "o", "c", "h", "a">>
    [] w = "pytest" -> <<"p", "y", "t", "e", "s", "t">>
    [] w = "python" -> <<"p", "y", "t", "h", "o", "n">>
    [] w = "maven" -> <<"m", "a", "v", "e", "n">>
    [] w = "gradle" -> <<"g", "r", "a", "d", "l", "e">>
    [] w = "rust" -> <<"r", "u", "s", "t">>
    [] w = "go" -> <<"g", "o">>
    [] w = "empty" -> <<"e", "m", "p", "t", "y">>
    [] w = "failed," -> <<"f", "a", "i", "l", "e", "d", ",">>
    [] w = "info" -> <<"i", "n", "f", "o">>
    [] w = "cypress" -> <<"c", "y", "p", "r", "e", "s", "s">>
    [] w = "playwright" -> <<"p", "l", "a", "y", "w", "r", "i", "g", "h", "t">>
    [] w = "jest-dom" -> <<"j", "e", "s", "t", "-", "d", "o", "m">>
    [] w = "mocha-supertest" -> <<"m", "o", "c", "h", "a", "-", "s", "u", "p", "e", "r", "t", "e", "s", "t">>
    [] w = "selenium-python" -> <<"s", "e", "l", "e", "n", "i", "u", "m", "-", "p", "y", "t", "h", "o", "n">>
    [] w = "behave" -> <<"b", "e", "h", "a", "v", "e">>
    [] w = "selenium-java" -> <<"s", "e", "l", "e", "n", "i", "u", "m", "-", "j", "a", "v", "a">>
    [] w = "cucumber-java" -> <<"c", "u", "c", "u", "m", "b", "e", "r", "-", "j", "a", "v", "a">>
    [] w = "rest-assured" -> <<"r", "e", "s", "t", "-", "a", "s", "s", "u", "r", "e", "d">>
    [] w = "docker-compose" -> <<"d", "o", "c", "k", "e", "r", "-", "c", "o", "m", "p", "o", "s", "e">>
    [] w = "skipped," -> <<"s", "k", "i", "p", "p", "e", "d", ",">>
    [] w = "protractor" -> <<"p", "r", "o", "t", "r", "a", "c", "t", "o", "r">>
    [] w = "node" -> <<"n", "o", "d", "e">>
    [] w = "unknown" -> <<"u", "n", "k", "n", "o", "w", "n">>
    [] w = "karma" -> <<"k", "a", "r", "m", "a">>
    [] w = "unittest" -> <<"u", "n", "i", "t", "t", "e", "s", "t">>
    [] w = ".git" -> <<".", "g", "i", "t">>
    [] w = "package.json" -> <<"p", "a", "c", "k", "a", "g", "e", ".", "j", "s", "o", "n">>
    [] w = "requirements.txt" -> <<"r", "e", "q", "u", "i", "r", "e", "m", "e", "n", "t", "s", ".", "t", "x", "t">>
    [] w = "setup.py" -> <<"s", "e", "t", "u", "p", ".", "p", "y">>
    [] w = "pom.xml" -> <<"p", "o", "m", ".", "x", "m", "l">>
    [] w = "build.gradle" -> <<"b", "u", "i", "l", "d", ".", "g", "r", "a", "d", "l", "e">>
    [] w = "Cargo.toml" -> <<"C", "a", "r", "g", "o", ".", "t", "o", "m", "l">>
    [] w = "go.mod" -> <<"g", "o", ".", "m", "o", "d">>
    [] w = "@playwright/test" -> <<"@", "p", "l", "a", "y", "w", "r", "i", "g", "h", "t", "/", "t", "e", "s", "t">>
    [] w = "@testing-library/react" -> <<"@", "t", "e", "s", "t", "i", "n", "g", "-", "l", "i", "b", "r", "a", "r", "y", "/", "r", "e", "a", "c", "t">>
    [] w = "@testing-library/vue" -> <<"@", "t", "e", "s", "t", "i", "n", "g", "-", "l", "i", "b", "r", "a", "r", "y", "/", "v", "u", "e">>
    [] w = "supertest" -> <<"s", "u", "p", "e", "r", "t", "e", "s", "t">>
    [] w = "selenium" -> <<"s", "e", "l", "e", "n", "i", "u", "m">>
    [] w = "cucumber" -> <<"c", "u", "c", "u", "m", "b", "e", "r">>
    [] w = "docker-compose.yml" -> <<"d", "o", "c", "k", "e", "r", "-", "c", "o", "m", "p", "o", "s", "e", ".", "y", "m", "l">>
    [] w = "echo \"Repository is empty, no tests to run\"" -> <<"e", "c", "h", "o", " ", "\"", "R", "e", "p", "o", "s", "i", "t", "o", "r", "y", " ", "i", "s", " ", "e", "m", "p", "t", "y", ",", " ", "n", "o", " ", "t", "e", "s", "t", "s", " ", "t", "o", " ", "r", "u", "n", "\"">>
    [] w = "npx jest --json" -> <<"n", "p", "x", " ", "j", "e", "s", "t", " ", "-", "-", "j", "s", "o", "n">>
    [] w = "npx mocha --reporter json" -> <<"n", "p", "x", " ", "m", "o", "c", "h", "a", " ", "-", "-", "r", "e", "p", "o", "r", "t", "e", "r", " ", "j", "s", "o", "n">>
    [] w = "npx karma start --single-run --reporters json" -> <<"n", "p", "x", " ", "k", "a", "r", "m", "a", " ", "s", "t", "a", "r", "t", " ", "-", "-", "s", "i", "n", "g", "l", "e", "-", "r", "u", "n", " ", "-", "-", "r", "e", "p", "o", "r", "t", "e", "r", "s", " ", "j", "s", "o", "n">>
    [] w = "npm test" -> <<"n", "p", "m", " ", "t", "e", "s", "t">>
    [] w = "python -m pytest -v" -> <<"p", "y", "t", "h", "o", "n", " ", "-", "m", " ", "p", "y", "t", "e", "s", "t", " ", "-", "v">>
    [] w = "python -m unittest discover" -> <<"p", "y", "t", "h", "o", "n", " ", "-", "m", " ", "u", "n", "i", "t", "t", "e", "s", "t", " ", "d", "i", "s", "c", "o", "v", "e", "r">>
    [] w = "mvn test" -> <<"m", "v", "n", " ", "t", "e", "s", "t">>
    [] w = "./gradlew test" -> <<".", "/", "g", "r", "a", "d", "l", "e", "w", " ", "t", "e", "s", "t">>
    [] w = "cargo test" -> <<"c", "a", "r", "g", "o", " ", "t", "e", "s", "t">>
    [] w = "go test ./..." -> <<"g", "o", " ", "t", "e", "s", "t", " ", ".", "/", ".", ".", ".">>
    [] w = "npx cypress run" -> <<"n", "p", "x", " ", "c", "y", "p", "r", "e", "s", "s", " ", "r", "u", "n">>
    [] w = "npx playwright test" -> <<"n", "p", "x", " ", "p", "l", "a", "y", "w", "r", "i", "g", "h", "t", " ", "t", "e", "s", "t">>
    [] w = "npx protractor e2e/protractor.conf.js" -> <<"n", "p", "x", " ", "p", "r", "o", "t", "r", "a", "c", "t", "o", "r", " ", "e", "2", "e", "/", "p", "r", "o", "t", "r", "a", "c", "t", "o", "r", ".", "c", "o", "n", "f", ".", "j", "s">>
    [] w = "npx jest --testPathPattern=integration" -> <<"n", "p", "x", " ", "j", "e", "s", "t", " ", "-", "-", "t", "e", "s", "t", "P", "a", "t", "h", "P", "a", "t", "t", "e", "r", "n", "=", "i", "n", "t", "e", "g", "r", "a", "t", "i", "o", "n">>
    [] w = "tests/integration" -> <<"t", "e", "s", "t", "s", "/", "i", "n", "t", "e", "g", "r", "a", "t", "i", "o", "n">>
    [] w = "npx jest tests/integration" -> <<"n", "p", "x", " ", "j", "e", "s", "t", " ", "t", "e", "s", "t", "s", "/", "i", "n", "t", "e", "g", "r", "a", "t", "i", "o", "n">>
    [] w = "__tests__/integration" -> <<"_", "_", "t", "e", "s", "t", "s", "_", "_", "/", "i", "n", "t", "e", "g", "r", "a", "t", "i", "o", "n">>
    [] w = "npx jest __tests__/integration" -> <<"n", "p", "x", " ", "j", "e", "s", "t", " ", "_", "_", "t", "e", "s", "t", "s", "_", "_", "/", "i", "n", "t", "e", "g", "r", "a", "t", "i", "o", "n">>
    [] w = "npx jest integration" -> <<"n", "p", "x", " ", "j", "e", "s", "t", " ", "i", "n", "t", "e", "g", "r", "a", "t", "i", "o", "n">>
    [] w = "test/integration" -> <<"t", "e", "s", "t", "/", "i", "n", "t", "e", "g", "r", "a", "t", "i", "o", "n">>
    [] w = "npx mocha test/integration" -> <<"n", "p", "x", " ", "m", "o", "c", "h", "a", " ", "t", "e", "s", "t", "/", "i", "n", "t", "e", "g", "r", "a", "t", "i", "o", "n">>
    [] w = "npx mocha tests/integration" -> <<"n", "p", "x", " ", "m", "o", "c", "h", "a", " ", "t", "e", "s", "t", "s", "/", "i", "n", "t", "e", "g", "r", "a", "t", "i", "o", "n">>
    [] w = "npx mocha \"**/*.integration.js\"" -> <<"n", "p", "x", " ", "m", "o", "c", "h", "a", " ", "\"", "*", "*", "/", "*", ".", "i", "n", "t", "e", "g", "r", "a", "t", "i", "o", "n", ".", "j", "s", "\"">>
    [] w = "test:integration" -> <<"t", "e", "s", "t", ":", "i", "n", "t", "e", "g", "r", "a", "t", "i", "o", "n">>
    [] w = "npm run test:integration" -> <<"n", "p", "m", " ", "r", "u", "n", " ", "t", "e", "s", "t", ":", "i", "n", "t", "e", "g", "r", "a", "t", "i", "o", "n">>
    [] w = "npm run integration" -> <<"n", "p", "m", " ", "r", "u", "n", " ", "i", "n", "t", "e", "g", "r", "a", "t", "i", "o", "n">>
    [] w = "e2e" -> <<"e", "2", "e">>
    [] w = "npm run e2e" -> <<"n", "p", "m", " ", "r", "u", "n", " ", "e", "2", "e">>
    [] w = "python -m pytest tests/integration" -> <<"p", "y", "t", "h", "o", "n", " ", "-", "m", " ", "p", "y", "t", "e", "s", "t", " ", "t", "e", "s", "t", "s", "/", "i", "n", "t", "e", "g", "r", "a", "t", "i", "o", "n">>
    [] w = "python -m pytest integration" -> <<"p", "y", "t", "h", "o", "n", " ", "-", "m", " ", "p", "y", "t", "e", "s", "t", " ", "i", "n", "t", "e", "g", "r", "a", "t", "i", "o", "n">>
    [] w = "python -m pytest -k \"integration\"" -> <<"p", "y", "t", "h", "o", "n", " ", "-", "m", " ", "p", "y", "t", "e", "s", "t", " ", "-", "k", " ", "\"", "i", "n", "t", "e", "g", "r", "a", "t", "i", "o", "n", "\"">>
    [] w = "mvn verify" -> <<"m", "v", "n", " ", "v", "e", "r", "i", "f", "y">>
    [] w = "./gradlew integrationTest" -> <<".", "/", "g", "r", "a", "d", "l", "e", "w", " ", "i", "n", "t", "e", "g", "r", "a", "t", "i", "o", "n", "T", "e", "s", "t">>
    [] w = "docker-compose up --abort-on-container-exit --exit-code-from test" -> <<"d", "o", "c", "k", "e", "r", "-", "c", "o", "m", "p", "o", "s", "e", " ", "u", "p", " ", "-", "-", "a", "b", "o", "r", "t", "-", "o", "n", "-", "c", "o", "n", "t", "a", "i", "n", "e", "r", "-", "e", "x", "i", "t", " ", "-", "-", "e", "x", "i", "t", "-", "c", "o", "d", "e", "-", "f", "r", "o", "m", " ", "t", "e", "s", "t">>
    [] w = "resolved" -> <<"r", "e", "s", "o", "l", "v", "e", "d">>
    [] w = "absent" -> <<"a", "b", "s", "e", "n", "t">>
    [] w = "rejected" -> <<"r", "e", "j", "e", "c", "t", "e", "d">>
    [] w = "none" -> <<"n", "o", "n", "e">>
    [] w = "armed" -> <<"a", "r", "m", "e", "d">>
    [] w = "cleared" -> <<"c", "l", "e", "a", "r", "e", "d">>
    [] w = "Command failed with exit code" -> <<"C", "o", "m", "m", "a", "n", "d", " ", "f", "a", "i", "l", "e", "d", " ", "w", "i", "t", "h", " ", "e", "x", "i", "t", " ", "c", "o", "d", "e">>
    [] w = "spawn error" -> <<"s", "p", "a", "w", "n", " ", "e", "r", "r", "o", "r">>
    [] w = "fired" -> <<"f", "i", "r", "e", "d">>
    [] w = "Command timed out" -> <<"C", "o", "m", "m", "a", "n", "d", " ", "t", "i", "m", "e", "d", " ", "o", "u", "t">>
    [] w = "exit0" -> <<"e", "x", "i", "t", "0">>
    [] w = "exit1" -> <<"e", "x", "i", "t", "1">>
    [] w = "Command failed" -> <<"C", "o", "m", "m", "a", "n", "d", " ", "f", "a", "i", "l", "e", "d">>
    [] w = "timeout" -> <<"t", "i", "m", "e", "o", "u", "t">>
    [] w = "maxBuffer" -> <<"m", "a", "x", "B", "u", "f", "f", "e", "r">>
    [] w = "stdout maxBuffer length exceeded" -> <<"s", "t", "d", "o", "u", "t", " ", "m", "a", "x", "B", "u", "f", "f", "e", "r", " ", "l", "e", "n", "g", "t", "h", " ", "e", "x", "c", "e", "e", "d", "e", "d">>
    [] w = "ERR_CHILD_PROCESS_STDIO_MAXBUFFER" -> <<"E", "R", "R", "_", "C", "H", "I", "L", "D", "_", "P", "R", "O", "C", "E", "S", "S", "_", "S", "T", "D", "I", "O", "_", "M", "A", "X", "B", "U", "F", "F", "E", "R">>
    [] w = "spawn" -> <<"s", "p", "a", "w", "n">>
    [] w = "ENOENT" -> <<"E", "N", "O", "E", "N", "T">>
    [] w = "notification failed" -> <<"n", "o", "t", "i", "f", "i", "c", "a", "t", "i", "o", "n", " ", "f", "a", "i", "l", "e", "d">>
    [] w = "returned" -> <<"r", "e", "t", "u", "r", "n", "e", "d">>
    [] w = "raised" -> <<"r", "a", "i", "s", "e", "d">>
    [] w = "Repository path does not exist" -> <<"R", "e", "p", "o", "s", "i", "t", "o", "r", "y", " ", "p", "a", "t", "h", " ", "d", "o", "e", "s", " ", "n", "o", "t", " ", "e", "x", "i", "s", "t">>
    [] w = "Could not determine test command" -> <<"C", "o", "u", "l", "d", " ", "n", "o", "t", " ", "d", "e", "t", "e", "r", "m", "i", "n", "e", " ", "t", "e", "s", "t", " ", "c", "o", "m", "m", "a", "n", "d">>
    [] w = "Failed to run unit tests" -> <<"F", "a", "i", "l", "e", "d", " ", "t", "o", " ", "r", "u", "n", " ", "u", "n", "i", "t", " ", "t", "e", "s", "t", "s">>
    [] w = "Failed to run integration tests" -> <<"F", "a", "i", "l", "e", "d", " ", "t", "o", " ", "r", "u", "n", " ", "i", "n", "t", "e", "g", "r", "a", "t", "i", "o", "n", " ", "t", "e", "s", "t", "s">>
    [] w = "Repository" -> <<"R", "e", "p", "o", "s", "i", "t", "o", "r", "y">>
    [] w = "is" -> <<"i", "s">>
    [] w = "empty," -> <<"e", "m", "p", "t", "y", ",">>
    [] w = "no" -> <<"n", "o">>
    [] w = "tests" -> <<"t", "e", "s", "t", "s">>
    [] w = "to" -> <<"t", "o">>
    [] w = "run" -> <<"r", "u", "n">>
    [] w = "npm run custom" -> <<"n", "p", "m", " ", "r", "u", "n", " ", "c", "u", "s", "t", "o", "m">>
    [] w = "malformed" -> <<"m", "a", "l", "f", "o", "r", "m", "e", "d">>
    [] w = "README.md" -> <<"R", "E", "A", "D", "M", "E", ".", "m", "d">>
\* END Chars

Digits == {"0", "1", "2", "3", "4", "5", "6", "7", "8", "9"}

DigitVal(c) ==
  CASE c = "0" -> 0 [] c = "1" -> 1 [] c = "2" -> 2 [] c = "3" -> 3 [] c = "4" -> 4
    [] c = "5" -> 5 [] c = "6" -> 6 [] c = "7" -> 7 [] c = "8" -> 8 [] c = "9" -> 9

\* parseInt of a run of digits
RECURSIVE ParseInt(_)
ParseInt(cs) ==
  IF cs = <<>> THEN 0
  ELSE 10 * ParseInt(SubSeq(cs, 1, Len(cs) - 1)) + DigitVal(cs[Len(cs)])

AllDigits(cs) == Len(cs) > 0 /\ \A i \in 1..Len(cs) : cs[i] \in Digits

\* the longest run of digits that ends cs
RECURSIVE DigitSuffix(_)
DigitSuffix(cs) ==
  IF cs = <<>> \/ cs[Len(cs)] \notin Digits THEN <<>>
  ELSE Append(DigitSuffix(SubSeq(cs, 1, Len(cs) - 1)), cs[Len(cs)])

\* the longest run of digits that starts cs
RECURSIVE DigitPrefix(_)
DigitPrefix(cs) ==
  IF cs = <<>> \/ cs[1] \notin Digits THEN <<>>
  ELSE <<cs[1]>> \o DigitPrefix(Tail(cs))

IsAt(cs, i, ns) == i + Len(ns) - 1 <= Len(cs) /\ SubSeq(cs, i, i + Len(ns) - 1) = ns

WordIncludes(w, s) == \E i \in 1..(Len(Chars(w)) + 1) : IsAt(Chars(w), i, Chars(s))

StartsWith(w, s) == IsAt(Chars(w), 1, Chars(s))

EndsWith(w, s) == Len(Chars(s)) <= Len(Chars(w))
                  /\ IsAt(Chars(w), Len(Chars(w)) - Len(Chars(s)) + 1, Chars(s))

\* String.prototype.toLowerCase, for the /i flag
LowerChar(c) ==
  CASE c = "A" -> "a" [] c = "B" -> "b" [] c = "C" -> "c" [] c = "D" -> "d" [] c = "E" -> "e"
    [] c = "F" -> "f" [] c = "G" -> "g" [] c = "H" -> "h" [] c = "I" -> "i" [] c = "J" -> "j"
    [] c = "K" -> "k" [] c = "L" -> "l" [] c = "M" -> "m" [] c = "N" -> "n" [] c = "O" -> "o"
    [] c = "P" -> "p" [] c = "Q" -> "q" [] c = "R" -> "r" [] c = "S" -> "s" [] c = "T" -> "t"
    [] c = "U" -> "u" [] c = "V" -> "v" [] c = "W" -> "w" [] c = "X" -> "x" [] c = "Y" -> "y"
    [] c = "Z" -> "z" [] OTHER -> c

Lower(cs) == [i \in 1..Len(cs) |-> LowerChar(cs[i])]

\* ------------------------------------------------------------------ lines
\* line.includes(needle): the needle is given split at its blanks, so that
\* <<"---", "PASS">> is '--- PASS', <<"", "PASSED">> is ' PASSED' and
\* <<"test", "">> is 'test '.
LineIncludes(line, pat) ==
  IF Len(pat) = 1
  THEN \E i \in 1..Len(line) : WordIncludes(line[i], pat[1])
  ELSE \E i \in 1..(Len(line) - Len(pat) + 1) :
         /\ EndsWith(line[i], pat[1])
         /\ \A k \in 2..(Len(pat) - 1) : line[i + k - 1] = pat[k]
         /\ StartsWith(line[i + Len(pat) - 1], pat[Len(pat)])

\* text.includes(needle), for a needle without a line break
TextIncludes(text, pat) == \E l \in 1..Len(text) : LineIncludes(text[l], pat)

\* the same with the /i flag, for a needle of one lower-case word
LineIncludesI(line, s) ==
  \E i \in 1..Len(line) :
    \E j \in 1..(Len(Chars(line[i])) + 1) : IsAt(Lower(Chars(line[i])), j, Chars(s))

EmptyLine == <<"">>

\* stdout + '\n' + stderr
Output(stdout, stderr) == stdout \o <<EmptyLine>> \o stderr

\* output.split('\n'): every line of the model ends with "\n", which leaves
\* one empty last element
SplitLines(output) == output \o <<EmptyLine>>

\* ---------------------------------------------------- regular expressions
\* A pattern is matched against consecutive words of one line.  Its elements:
\*   Suf(s)     the word ends with s           (the first element)
\*   Pre(s)     the word starts with s         (the last element)
\*   Lit(s)     the word is s
\*   NumSuf     (\d+) ending the word          (the first element)
\*   NumPre     (\d+) starting the word        (the last element)
\*   NumLit(s)  the word is (\d+) followed by s
Suf(s) == [t |-> "suf", s |-> s]
Pre(s) == [t |-> "pre", s |-> s]
Lit(s) == [t |-> "lit", s |-> s]
NumLit(s) == [t |-> "numlit", s |-> s]
NumSuf == [t |-> "numsuf", s |-> ""]
NumPre == [t |-> "numpre", s |-> ""]

\* cs is its digits d, one at least, followed by s
NumLitMatches(cs, d, s) == d # <<>> /\ SubSeq(cs, Len(d) + 1, Len(cs)) = s

ElemMatches(e, w) ==
  CASE e.t = "suf" -> EndsWith(w, e.s)
    [] e.t = "pre" -> StartsWith(w, e.s)
    [] e.t = "lit" -> w = e.s
    [] e.t = "numsuf" -> DigitSuffix(Chars(w)) # <<>>
    [] e.t = "numpre" -> DigitPrefix(Chars(w)) # <<>>
    [] e.t = "numlit" -> NumLitMatches(Chars(w), DigitPrefix(Chars(w)), Chars(e.s))

\* the number a (\d+) element captures
ElemCapture(e, w) ==
  CASE e.t = "numsuf" -> ParseInt(DigitSuffix(Chars(w)))
    [] e.t \in {"numpre", "numlit"} -> ParseInt(DigitPrefix(Chars(w)))
    [] OTHER -> 0

MatchesAt(text, l, i, pat) ==
  /\ i + Len(pat) - 1 <= Len(text[l])
  /\ \A k \in 1..Len(pat) : ElemMatches(pat[k], text[l][i + k - 1])

MatchPositions(text, pat) ==
  UNION {{<<l, i>> : i \in {j \in 1..Len(text[l]) : MatchesAt(text, l, j, pat)}} :
         l \in 1..Len(text)}

\* String.prototype.match without the g flag: the leftmost match, or null
\* (<<>>); a match is <<line, word>>
Leftmost(S) ==
  IF S = {} THEN <<>>
  ELSE CHOOSE p \in S : \A q \in S : p[1] < q[1] \/ (p[1] = q[1] /\ p[2] <= q[2])

Match(text, pat) == Leftmost(MatchPositions(text, pat))

\* parseInt(m[k]) where the k-th group is the pattern's element number e
Group(text, pat, m, e) == ElemCapture(pat[e], text[m[1]][m[2] + e - 1])

\* m ? parseInt(m[1]) : 0, the one group being element e
GroupOfOr0(text, pat, m, e) == IF m = <<>> THEN 0 ELSE Group(text, pat, m, e)

GroupOr0(text, pat, e) == GroupOfOr0(text, pat, Match(text, pat), e)


\* the elements the unit parsers add:
\*   W1         (\w+). : word characters and one more character
\*   PreW(s)    the word starts with s and one word character at least
W1 == [t |-> "w1", s |-> ""]
PreW(s) == [t |-> "prew", s |-> s]

WordChars == Digits \cup {"_"} \cup
  {"a", "b", "c", "d", "e", "f", "g", "h", "i", "j", "k", "l", "m", "n", "o", "p", "q",
   "r", "s", "t", "u", "v", "w", "x", "y", "z"}

IsWordChar(c) == LowerChar(c) \in WordChars

ElemMatchesX(e, w) ==
  CASE e.t = "w1" ->
         /\ Len(Chars(w)) >= 2
         /\ \A i \in 1..(Len(Chars(w)) - 1) : IsWordChar(Chars(w)[i])
    [] e.t = "prew" ->
         /\ StartsWith(w, e.s)
         /\ Len(Chars(w)) > Len(Chars(e.s))
         /\ IsWordChar(Chars(w)[Len(Chars(e.s)) + 1])
    [] OTHER -> ElemMatches(e, w)

MatchesAtX(text, l, i, pat) ==
  /\ i + Len(pat) - 1 <= Len(text[l])
  /\ \A k \in 1..Len(pat) : ElemMatchesX(pat[k], text[l][i + k - 1])

MatchPositionsX(text, pat) ==
  UNION {{<<l, i>> : i \in {j \in 1..Len(text[l]) : MatchesAtX(text, l, j, pat)}} :
         l \in 1..Len(text)}

MatchX(text, pat) == Leftmost(MatchPositionsX(text, pat))

\* String.prototype.trim of a line: its leading and trailing blanks go
RECURSIVE TrimLeft(_)
TrimLeft(line) ==
  IF line # <<>> /\ Head(line) = "" /\ Len(line) > 1 THEN TrimLeft(Tail(line)) ELSE line

RECURSIVE TrimRight(_)
TrimRight(line) ==
  IF Len(line) > 1 /\ line[Len(line)] = ""
  THEN TrimRight(SubSeq(line, 1, Len(line) - 1)) ELSE line

Trim(line) == TrimRight(TrimLeft(line))

\* ---------------------------------------------------------------- results
\* A count that was read from a property the parsed JSON does not have
Undefined == -1

\* standardResult as _parseTestResults and _parseIntegrationTestResults
\* initialise it; error is <<>> while the object has no error property
StandardResult(stdout, stderr) ==
  [success |-> "false",
   summary |-> [total |-> 0, passed |-> 0, failed |-> 0, skipped |-> 0],
   details |-> <<>>,
   rawOutput |-> stdout,
   rawError |-> stderr,
   timestamp |-> "now",
   error |-> <<>>]

Bool(b) == IF b THEN "true" ELSE "false"

\* one entry of details; name is the trimmed line the case was read from
\* (the parsers cut the name and the suite out of it for display)
Case(name, status) == [name |-> name, status |-> status]

\* a parser call ends by returning the result or by throwing; in both cases
\* result is standardResult as the call left it
Returned(r) == [threw |-> FALSE, result |-> r, message |-> ""]
Thrown(r, msg) == [threw |-> TRUE, result |-> r, message |-> msg]

\* ------------------------------------------- UnitTestAgent: generic parser
EndsWithIt(cs) == Len(cs) >= 2 /\ IsAt(cs, Len(cs) - 1, Chars("it"))

UnitGenericLooksLikeTest(line) ==
  /\ \/ LineIncludesI(line, "test")
     \/ LineIncludesI(line, "spec")
     \/ LineIncludesI(line, "should")
     \/ \E i \in 1..(Len(line) - 1) : EndsWithIt(Lower(Chars(line[i])))
  /\ \/ LineIncludes(line, <<"pass">>)
     \/ LineIncludes(line, <<"fail">>)
     \/ LineIncludes(line, <<"error">>)

GenericSuccess(output, stderr) ==
  ~ \/ TextIncludes(output, <<"FAIL">>)
    \/ TextIncludes(output, <<"ERROR">>)
    \/ TextIncludes(output, <<"FAILURE">>)
    \/ TextIncludes(output, <<"Exception">>)
    \/ Len(stderr) > 0

GenericCase(line) ==
  Case(Trim(line), IF LineIncludes(line, <<"pass">>) THEN "passed" ELSE "failed")

\* the part of the two generic parsers that is the same text
\* the lines of output a parser takes for test lines
TestLines(output, IsTestLine(_)) == SelectSeq(SplitLines(output), IsTestLine)

\* the details a parser pushes for its test lines
Cases(lines, CaseOf(_)) == [i \in 1..Len(lines) |-> CaseOf(lines[i])]

\* testCount, without the "|| 1"
GenericTotalUncounted(tests) == Len(tests)

\* testCount || 1
GenericTotal(tests) == IF Len(tests) # 0 THEN Len(tests) ELSE 1

GenericSummary(s, success, total) ==
  IF success THEN [s EXCEPT !.total = total, !.passed = total]
  ELSE [s EXCEPT !.total = total, !.failed = 1, !.passed = total - 1]

GenericFill(standardResult, success, tests) ==
  [standardResult EXCEPT
     !.success = Bool(success),
     !.details = @ \o Cases(tests, GenericCase),
     !.summary = GenericSummary(standardResult.summary, success, GenericTotal(tests))]

GenericResults(stdout, stderr, standardResult, LooksLikeTest(_)) ==
  GenericFill(standardResult, GenericSuccess(Output(stdout, stderr), stderr),
              TestLines(Output(stdout, stderr), LooksLikeTest))

UnitParseGenericResults(stdout, stderr, standardResult) ==
  GenericResults(stdout, stderr, standardResult, UnitGenericLooksLikeTest)

\* -------------------------------------------- UnitTestAgent: Python parser
PyCollected == <<Suf("collected"), NumLit(""), Pre("items")>>
PyPassed == <<NumSuf, Pre("passed")>>
PyFailed == <<NumSuf, Pre("failed")>>
PySkipped == <<NumSuf, Pre("skipped")>>

PyIsTestLine(line) ==
  \/ LineIncludes(line, <<"PASSED">>)
  \/ LineIncludes(line, <<"FAILED">>)
  \/ LineIncludes(line, <<"SKIPPED">>)

PyCase(line) ==
  Case(Trim(line),
       IF LineIncludes(line, <<"PASSED">>) THEN "passed"
       ELSE IF LineIncludes(line, <<"FAILED">>) THEN "failed" ELSE "skipped")

PythonFill(standardResult, output) ==
  [standardResult EXCEPT
     !.summary = [total |-> GroupOr0(output, PyCollected, 2),
                  passed |-> GroupOr0(output, PyPassed, 1),
                  failed |-> GroupOr0(output, PyFailed, 1),
                  skipped |-> GroupOr0(output, PySkipped, 1)],
     !.success = Bool(GroupOr0(output, PyFailed, 1) = 0),
     !.details = @ \o Cases(TestLines(output, PyIsTestLine), PyCase)]

PythonResults(stdout, stderr, standardResult) ==
  PythonFill(standardResult, Output(stdout, stderr))

UnitParsePythonResults(stdout, stderr, standardResult) ==
  PythonResults(stdout, stderr, standardResult)


\* ---------------------------------------------- UnitTestAgent: Java parser
JavaTestsRun ==
  <<Suf("Tests"), Lit("run:"), NumLit(","), Lit("Failures:"), NumLit(","),
    Lit("Errors:"), NumLit(","), Lit("Skipped:"), NumPre>>

\* total, failed (failures + errors) and skipped give the summary
JavaCounts(total, failed, skipped) ==
  [total |-> total, passed |-> total - failed - skipped,
   failed |-> failed, skipped |-> skipped]

JavaSummaryOf(output, s, m) ==
  IF m = <<>> THEN s
  ELSE JavaCounts(Group(output, JavaTestsRun, m, 3),
                  Group(output, JavaTestsRun, m, 5) + Group(output, JavaTestsRun, m, 7),
                  Group(output, JavaTestsRun, m, 9))

JavaSummary(output, s) == JavaSummaryOf(output, s, Match(output, JavaTestsRun))

JavaFill(standardResult, s) ==
  [standardResult EXCEPT !.summary = s, !.success = Bool(s.failed = 0)]

UnitParseJavaResults(stdout, stderr, standardResult) ==
  JavaFill(standardResult, JavaSummary(Output(stdout, stderr), standardResult.summary))

\* ---------------------------------------------- UnitTestAgent: Rust parser
RustSummary ==
  <<Suf("test"), Lit("result:"), W1, NumLit(""), Lit("passed;"), NumLit(""),
    Lit("failed;"), NumLit(""), Pre("ignored")>>

RustIsTestLine(line) ==
  /\ LineIncludes(line, <<"test", "">>)
  /\ \/ LineIncludes(line, <<"", "...", "ok">>)
     \/ LineIncludes(line, <<"", "...", "FAILED">>)
     \/ LineIncludes(line, <<"", "...", "ignored">>)

RustCase(line) ==
  Case(Trim(line),
       IF LineIncludes(line, <<"", "...", "ok">>) THEN "passed"
       ELSE IF LineIncludes(line, <<"", "...", "FAILED">>) THEN "failed" ELSE "skipped")

\* resultMatch[1] === 'ok', the group being the word less its last character
RustOk(word) == SubSeq(word, 1, Len(word) - 1) = Chars("ok")

RustCounts(passed, failed, skipped) ==
  [total |-> passed + failed + skipped, passed |-> passed,
   failed |-> failed, skipped |-> skipped]

RustSummarised(standardResult, output, m) ==
  IF m = <<>> THEN standardResult
  ELSE [standardResult EXCEPT
          !.success = Bool(RustOk(Chars(output[m[1]][m[2] + 2]))),
          !.summary = RustCounts(Group(output, RustSummary, m, 4),
                                 Group(output, RustSummary, m, 6),
                                 Group(output, RustSummary, m, 8))]

RustFill(standardResult, output) ==
  [RustSummarised(standardResult, output, MatchX(output, RustSummary)) EXCEPT
     !.details = @ \o Cases(TestLines(output, RustIsTestLine), RustCase)]

UnitParseRustResults(stdout, stderr, standardResult) ==
  RustFill(standardResult, Output(stdout, stderr))

\* ------------------------------------------------ UnitTestAgent: Go parser
GoResultLine == <<Suf("---"), Lit("PASS:"), PreW("Test")>>
GoFailLine == <<Suf("---"), Lit("FAIL:"), PreW("Test")>>
GoSkipLine == <<Suf("---"), Lit("SKIP:"), PreW("Test")>>

GoIsTestLine(line) ==
  \/ MatchX(<<line>>, GoResultLine) # <<>>
  \/ MatchX(<<line>>, GoFailLine) # <<>>
  \/ MatchX(<<line>>, GoSkipLine) # <<>>

GoIsPass(line) == LineIncludes(line, <<"---", "PASS">>)
GoIsFail(line) == LineIncludes(line, <<"---", "FAIL">>)
GoIsSkip(line) == LineIncludes(line, <<"---", "SKIP">>)

GoCase(line) ==
  Case(Trim(line),
       IF GoIsPass(line) THEN "passed" ELSE IF GoIsFail(line) THEN "failed" ELSE "skipped")

\* passedMatch && !failedMatch is null when there is no PASS
GoSuccess(output) ==
  IF ~TextIncludes(output, <<"PASS">>) THEN "null"
  ELSE Bool(~TextIncludes(output, <<"FAIL">>))

GoFill(standardResult, output, testLines) ==
  [standardResult EXCEPT
     !.success = GoSuccess(output),
     !.summary = [total |-> Len(testLines),
                  passed |-> Len(SelectSeq(testLines, GoIsPass)),
                  failed |-> Len(SelectSeq(testLines, GoIsFail)),
                  skipped |-> Len(SelectSeq(testLines, GoIsSkip))],
     !.details = @ \o Cases(testLines, GoCase)]

UnitParseGoResults(stdout, stderr, standardResult) ==
  GoFill(standardResult, Output(stdout, stderr),
         TestLines(Output(stdout, stderr), GoIsTestLine))


\* ------------------------------------------------------------------- JSON
\* The JSON documents of the model, each one word of output
JestJsonPassing ==
  "{\"success\":true,\"numTotalTests\":1,\"numPassedTests\":1,\"numFailedTests\":0,\"numPendingTests\":0,\"testResults\":[{\"name\":\"a\",\"assertionResults\":[{\"title\":\"adds\",\"status\":\"passed\"}]}]}"
JestJsonFailing ==
  "{\"success\":false,\"numTotalTests\":2,\"numPassedTests\":1,\"numFailedTests\":1,\"numPendingTests\":0,\"testResults\":[{\"name\":\"a\",\"assertionResults\":[{\"title\":\"adds\",\"status\":\"passed\"},{\"title\":\"subs\",\"status\":\"failed\"}]}]}"
JestJsonTodo ==
  "{\"success\":true,\"numTotalTests\":2,\"numPassedTests\":1,\"numFailedTests\":0,\"numPendingTests\":0,\"numTodoTests\":1,\"testResults\":[{\"name\":\"a\",\"assertionResults\":[{\"title\":\"adds\",\"status\":\"passed\"},{\"title\":\"subs\",\"status\":\"todo\"}]}]}"
JestJsonNoResults ==
  "{\"numTotalTests\":1}"
MochaJsonPassing ==
  "{\"stats\":{\"tests\":1,\"passes\":1,\"failures\":0,\"pending\":0},\"passes\":[{\"title\":\"adds\",\"fullTitle\":\"math_adds\"}],\"failures\":[],\"pending\":[]}"
MochaJsonFailing ==
  "{\"stats\":{\"tests\":2,\"passes\":1,\"failures\":1,\"pending\":0},\"passes\":[{\"title\":\"adds\",\"fullTitle\":\"math_adds\"}],\"failures\":[{\"title\":\"subs\",\"fullTitle\":\"math_subs\"}],\"pending\":[]}"
MochaJsonNoFullTitle ==
  "{\"stats\":{\"tests\":1,\"passes\":1,\"failures\":0,\"pending\":0},\"passes\":[{\"title\":\"adds\"}]}"
MochaJsonNoStats ==
  "{\"passes\":[]}"
JsonNull == "null"

\* A parsed value.  A property the document lacks is "undefined", Undefined
\* or <<>>; an array that is there is <<array>>.
JsonObject ==
  [kind |-> "object", success |-> "undefined",
   numTotalTests |-> Undefined, numPassedTests |-> Undefined,
   numFailedTests |-> Undefined, numPendingTests |-> Undefined,
   testResults |-> <<>>, stats |-> <<>>, passes |-> <<>>, failures |-> <<>>,
   pending |-> <<>>]

JestAssertion(title, status) == [title |-> title, status |-> status]
JestSuite(assertions) == [assertionResults |-> <<assertions>>]
MochaStats(tests, passes, failures, pending) ==
  [tests |-> tests, passes |-> passes, failures |-> failures, pending |-> pending]
MochaTest(title, hasFullTitle) == [title |-> title, hasFullTitle |-> hasFullTitle]

JsonValue(w) ==
  CASE w = JsonNull -> [JsonObject EXCEPT !.kind = "null"]
    [] w = JestJsonPassing ->
         [JsonObject EXCEPT !.success = "true", !.numTotalTests = 1, !.numPassedTests = 1,
            !.numFailedTests = 0, !.numPendingTests = 0,
            !.testResults = <<<<JestSuite(<<JestAssertion("adds", "passed")>>)>>>>]
    [] w = JestJsonFailing ->
         [JsonObject EXCEPT !.success = "false", !.numTotalTests = 2, !.numPassedTests = 1,
            !.numFailedTests = 1, !.numPendingTests = 0,
            !.testResults = <<<<JestSuite(<<JestAssertion("adds", "passed"),
                                            JestAssertion("subs", "failed")>>)>>>>]
    [] w = JestJsonTodo ->
         [JsonObject EXCEPT !.success = "true", !.numTotalTests = 2, !.numPassedTests = 1,
            !.numFailedTests = 0, !.numPendingTests = 0,
            !.testResults = <<<<JestSuite(<<JestAssertion("adds", "passed"),
                                            JestAssertion("subs", "todo")>>)>>>>]
    [] w = JestJsonNoResults -> [JsonObject EXCEPT !.numTotalTests = 1]
    [] w = MochaJsonPassing ->
         [JsonObject EXCEPT !.stats = <<MochaStats(1, 1, 0, 0)>>,
            !.passes = <<<<MochaTest("adds", TRUE)>>>>,
            !.failures = <<<<>>>>, !.pending = <<<<>>>>]
    [] w = MochaJsonFailing ->
         [JsonObject EXCEPT !.stats = <<MochaStats(2, 1, 1, 0)>>,
            !.passes = <<<<MochaTest("adds", TRUE)>>>>,
            !.failures = <<<<MochaTest("subs", TRUE)>>>>, !.pending = <<<<>>>>]
    [] w = MochaJsonNoFullTitle ->
         [JsonObject EXCEPT !.stats = <<MochaStats(1, 1, 0, 0)>>,
            !.passes = <<<<MochaTest("adds", FALSE)>>>>]
    [] w = MochaJsonNoStats -> [JsonObject EXCEPT !.passes = <<<<>>>>]
    [] AllDigits(Chars(w)) -> [JsonObject EXCEPT !.kind = "number"]

JsonWords ==
  {JsonNull, JestJsonPassing, JestJsonFailing, JestJsonTodo, JestJsonNoResults,
   MochaJsonPassing, MochaJsonFailing, MochaJsonNoFullTitle, MochaJsonNoStats}

\* JSON.parse(stdout): <<value>>, or <<>> when it throws a SyntaxError.  The
\* text is one JSON document when it is one line of one word that is a
\* document.
JSONParse(text) ==
  IF Len(text) = 1 /\ Len(text[1]) = 1
     /\ (text[1][1] \in JsonWords \/ AllDigits(Chars(text[1][1])))
  THEN <<JsonValue(text[1][1])>>
  ELSE <<>>

\* ---------------------------------------------- UnitTestAgent: Jest parser
\* suite.assertionResults.forEach(test => details.push(...))
JestSuiteCases(suite) ==
  [i \in 1..Len(suite.assertionResults[1]) |->
     Case(<<suite.assertionResults[1][i].title>>, suite.assertionResults[1][i].status)]

RECURSIVE JestCases(_)
JestCases(suites) ==
  IF suites = <<>> THEN <<>> ELSE JestSuiteCases(Head(suites)) \o JestCases(Tail(suites))

\* the try block of _parseJestResults
JestSummarised(standardResult, j) ==
  [standardResult EXCEPT
     !.success = j.success,
     !.summary = [total |-> j.numTotalTests, passed |-> j.numPassedTests,
                  failed |-> j.numFailedTests, skipped |-> j.numPendingTests]]

\* with jestOutput = j
JestParsed(standardResult, j) ==
  IF j.kind = "null" THEN Thrown(standardResult, "TypeError")
  ELSE IF j.testResults = <<>> THEN Thrown(JestSummarised(standardResult, j), "TypeError")
  ELSE Returned([JestSummarised(standardResult, j) EXCEPT
                   !.details = @ \o JestCases(j.testResults[1])])

JestTried(standardResult, parsed) ==
  IF parsed = <<>> THEN Thrown(standardResult, "SyntaxError")
  ELSE JestParsed(standardResult, parsed[1])

UnitJestTry(stdout, standardResult) == JestTried(standardResult, JSONParse(stdout))

UnitParseJestResultsNoCatch(stdout, standardResult) == UnitJestTry(stdout, standardResult)

\* catch (err) { return this._parseGenericResults(stdout, '', standardResult) }
GenericFallback(stdout, c) ==
  IF c.threw THEN Returned(UnitParseGenericResults(stdout, <<>>, c.result)) ELSE c

UnitParseJestResults(stdout, standardResult) ==
  GenericFallback(stdout, UnitJestTry(stdout, standardResult))

\* --------------------------------------------- UnitTestAgent: Mocha parser
\* _processMochaTests: the cases pushed, and whether a test without a
\* fullTitle made it throw (the cases before that test are pushed)
RECURSIVE MochaPushed(_, _)
MochaPushed(tests, status) ==
  IF tests = <<>> \/ ~Head(tests).hasFullTitle THEN <<>>
  ELSE <<Case(<<Head(tests).title>>, status)>> \o MochaPushed(Tail(tests), status)

MochaPush(r, tests, pushed) ==
  IF Len(pushed) < Len(tests)
  THEN Thrown([r EXCEPT !.details = @ \o pushed], "TypeError")
  ELSE Returned([r EXCEPT !.details = @ \o pushed])

ProcessMochaTests(tests, status, c) ==
  IF c.threw \/ tests = <<>> THEN c
  ELSE MochaPush(c.result, tests[1], MochaPushed(tests[1], status))

\* the try block of _parseMochaResults
MochaSummarised(standardResult, st) ==
  [standardResult EXCEPT
     !.success = Bool(st.failures = 0),
     !.summary = [total |-> st.tests, passed |-> st.passes,
                  failed |-> st.failures, skipped |-> st.pending]]

\* with mochaOutput = j
MochaParsed(standardResult, j) ==
  IF j.kind = "null" \/ j.stats = <<>> THEN Thrown(standardResult, "TypeError")
  ELSE ProcessMochaTests(j.pending, "skipped",
         ProcessMochaTests(j.failures, "failed",
           ProcessMochaTests(j.passes, "passed",
             Returned(MochaSummarised(standardResult, j.stats[1])))))

MochaTried(standardResult, parsed) ==
  IF parsed = <<>> THEN Thrown(standardResult, "SyntaxError")
  ELSE MochaParsed(standardResult, parsed[1])

UnitMochaTry(stdout, standardResult) == MochaTried(standardResult, JSONParse(stdout))

UnitParseMochaResults(stdout, standardResult) ==
  GenericFallback(stdout, UnitMochaTry(stdout, standardResult))

\* ----------------------------------------- UnitTestAgent._parseTestResults
EmptyRepositoryCase == Case(<<"repository-empty-check">>, "skipped")

UnitParseDispatch(stdout, stderr, projectType, standardResult) ==
  CASE projectType = "jest" -> UnitParseJestResults(stdout, standardResult)
    [] projectType = "mocha" -> UnitParseMochaResults(stdout, standardResult)
    [] projectType \in {"pytest", "python"} ->
         Returned(UnitParsePythonResults(stdout, stderr, standardResult))
    [] projectType \in {"maven", "gradle"} ->
         Returned(UnitParseJavaResults(stdout, stderr, standardResult))
    [] projectType = "rust" -> Returned(UnitParseRustResults(stdout, stderr, standardResult))
    [] projectType = "go" -> Returned(UnitParseGoResults(stdout, stderr, standardResult))
    [] OTHER -> Returned(UnitParseGenericResults(stdout, stderr, standardResult))

\* catch (error) { standardResult.error = ...; return standardResult }
ParseCaught(c) == IF c.threw THEN [c.result EXCEPT !.error = <<c.message>>] ELSE c.result

UnitParseFrom(stdout, stderr, projectType, standardResult) ==
  IF projectType = "empty"
  THEN [standardResult EXCEPT
          !.success = "true",
          !.summary = [@ EXCEPT !.skipped = 1, !.total = 1],
          !.details = Append(@, EmptyRepositoryCase)]
  ELSE ParseCaught(UnitParseDispatch(stdout, stderr, projectType, standardResult))

UnitParseTestResults(stdout, stderr, projectType) ==
  UnitParseFrom(stdout, stderr, projectType, StandardResult(stdout, stderr))


\* ------------------------------------------------ IntegrationAgent: glyphs
CheckMark == "U2713"
BallotX == "U2717"
MultiplicationX == "U2715"
HeavyX == "U2716"
WhiteCircle == "U25CB"

\* ------------------------------------------- IntegrationAgent: Cypress parser
Passing == <<NumSuf, Pre("passing")>>
Failing == <<NumSuf, Pre("failing")>>
Pending == <<NumSuf, Pre("pending")>>

\* line.includes('U2713') || line.includes('U2717') || line.includes('- ')
CypressIsTestLine(line) ==
  \/ LineIncludes(line, <<CheckMark>>)
  \/ LineIncludes(line, <<BallotX>>)
  \/ LineIncludes(line, <<"-", "">>)

CypressCase(line) ==
  Case(Trim(line),
       IF LineIncludes(line, <<CheckMark>>) THEN "passed"
       ELSE IF LineIncludes(line, <<BallotX>>) THEN "failed" ELSE "skipped")

\* output.match(/(\d+) passing|failing|pending/g)
CypressTotalMatch(output) ==
  \/ Match(output, Passing) # <<>>
  \/ TextIncludes(output, <<"failing">>)
  \/ TextIncludes(output, <<"pending">>)

\* total = passed + failed + skipped
Counts(passed, failed, skipped) ==
  [total |-> passed + failed + skipped, passed |-> passed,
   failed |-> failed, skipped |-> skipped]

\* the counts read from the passing, failing and pending lines
PassingFailingPending(output) ==
  Counts(GroupOr0(output, Passing, 1), GroupOr0(output, Failing, 1),
         GroupOr0(output, Pending, 1))

CypressFill(standardResult, output) ==
  [standardResult EXCEPT
     !.success = Bool(~TextIncludes(output, <<"(Run", "Finished)">>)),
     !.summary = IF CypressTotalMatch(output) THEN PassingFailingPending(output) ELSE @,
     !.details = @ \o Cases(TestLines(output, CypressIsTestLine), CypressCase)]

IntParseCypressResults(stdout, stderr, standardResult) ==
  CypressFill(standardResult, Output(stdout, stderr))

\* ---------------------------------------- IntegrationAgent: Playwright parser
PlaywrightPassed == <<NumSuf, Pre("passed")>>
\* the whole expression, its optional group taken
PlaywrightPassedFailed == <<NumSuf, Lit("passed"), Lit("/"), NumLit(""), Pre("failed")>>

\* parseInt(summaryMatch[2] || 0), the match being m
PlaywrightFailed(output, m) ==
  IF MatchesAt(output, m[1], m[2], PlaywrightPassedFailed)
  THEN Group(output, PlaywrightPassedFailed, m, 4) ELSE 0

PlaywrightCounts(s, passed, failed) ==
  [s EXCEPT !.passed = passed, !.failed = failed, !.total = passed + failed]

PlaywrightSummary(s, output, m) ==
  IF m # <<>>
  THEN PlaywrightCounts(s, Group(output, PlaywrightPassed, m, 1), PlaywrightFailed(output, m))
  ELSE s

PlaywrightFill(standardResult, output) ==
  [standardResult EXCEPT
     !.success = Bool(TextIncludes(output, <<"passed">>)
                      /\ ~TextIncludes(output, <<"failed">>)),
     !.summary = PlaywrightSummary(@, output, Match(output, PlaywrightPassed)),
     !.details = @ \o Cases(TestLines(output, CypressIsTestLine), CypressCase)]

IntParsePlaywrightResults(stdout, stderr, standardResult) ==
  PlaywrightFill(standardResult, Output(stdout, stderr))

\* ---------------------------------------------- IntegrationAgent: Jest parser
JestTestsLine ==
  <<Suf("Tests:"), NumLit(""), Lit("passed,"), NumLit(""), Lit("failed,"), NumLit(""),
    Pre("total")>>
JestSkipped == <<NumSuf, Pre("skipped")>>

IntJestIsTestLine(line) ==
  \/ LineIncludes(line, <<CheckMark>>)
  \/ LineIncludes(line, <<MultiplicationX>>)
  \/ LineIncludes(line, <<WhiteCircle>>)

IntJestCase(line) ==
  Case(Trim(line),
       IF LineIncludes(line, <<CheckMark>>) THEN "passed"
       ELSE IF LineIncludes(line, <<MultiplicationX>>) THEN "failed" ELSE "skipped")

\* if (summaryMatch) { passed, failed, total }, the match being m
JestTestsSummary(s, output, m) ==
  IF m # <<>>
  THEN [s EXCEPT !.passed = Group(output, JestTestsLine, m, 2),
                 !.failed = Group(output, JestTestsLine, m, 4),
                 !.total = Group(output, JestTestsLine, m, 6)]
  ELSE s

\* if (skippedMatch) { skipped }, the match being sk
JestSkippedSummary(s, output, sk) ==
  IF sk # <<>> THEN [s EXCEPT !.skipped = Group(output, JestSkipped, sk, 1)] ELSE s

IntJestFill(standardResult, output) ==
  [standardResult EXCEPT
     !.success = Bool(TextIncludes(output, <<"PASS">>) /\ ~TextIncludes(output, <<"FAIL">>)),
     !.summary = JestSkippedSummary(JestTestsSummary(@, output, Match(output, JestTestsLine)),
                                    output, Match(output, JestSkipped)),
     !.details = @ \o Cases(TestLines(output, IntJestIsTestLine), IntJestCase)]

IntParseJestResults(stdout, stderr, standardResult) ==
  IntJestFill(standardResult, Output(stdout, stderr))

\* --------------------------------------------- IntegrationAgent: Mocha parser
\* line.match(/\s+U2713|\s+U2716|\s+-/)
IntMochaIsTestLine(line) ==
  \/ LineIncludes(line, <<"", CheckMark>>)
  \/ LineIncludes(line, <<"", HeavyX>>)
  \/ LineIncludes(line, <<"", "-">>)

IntMochaCase(line) ==
  Case(Trim(line),
       IF LineIncludes(line, <<CheckMark>>) THEN "passed"
       ELSE IF LineIncludes(line, <<HeavyX>>) THEN "failed" ELSE "skipped")

IntMochaFill(standardResult, output) ==
  [standardResult EXCEPT
     !.success = Bool(~TextIncludes(output, <<"failing">>)),
     !.summary = PassingFailingPending(output),
     !.details = @ \o Cases(TestLines(output, IntMochaIsTestLine), IntMochaCase)]

IntParseMochaResults(stdout, stderr, standardResult) ==
  IntMochaFill(standardResult, Output(stdout, stderr))

\* -------------------------------------------- IntegrationAgent: Pytest parser
IntParsePytestResults(stdout, stderr, standardResult) ==
  PythonResults(stdout, stderr, standardResult)

\* -------------------------------------------- IntegrationAgent: Behave parser
BehaveScenarios ==
  <<NumSuf, Lit("scenarios"), Lit("passed,"), NumLit(""), Lit("failed,"), NumLit(""),
    Pre("skipped")>>
BehaveSteps ==
  <<NumSuf, Lit("steps"), Lit("passed,"), NumLit(""), Lit("failed,"), NumLit(""),
    Pre("skipped")>>

BehaveCounts(output, pat, m) ==
  Counts(Group(output, pat, m, 1), Group(output, pat, m, 4), Group(output, pat, m, 6))

\* line.startsWith('Feature:')
BehaveIsFeatureLine(line) == StartsWith(line[1], "Feature:")

\* line.startsWith('  Scenario:')
BehaveIsScenarioLine(line) ==
  Len(line) >= 3 /\ line[1] = "" /\ line[2] = "" /\ StartsWith(line[3], "Scenario:")

\* line.replace('Scenario:', '').trim(), 'Scenario:' being a word of its own
BehaveScenarioName(line) == Trim(<<"">> \o SubSeq(line, 4, Len(line)))

\* output.includes(`Scenario: ${name}\n    U2717`)
BehaveScenarioFailed(output, name) ==
  \E l \in 1..(Len(output) - 1) :
    /\ Len(output[l]) > Len(name)
    /\ SubSeq(output[l], Len(output[l]) - Len(name) + 1, Len(output[l])) = name
    /\ EndsWith(output[l][Len(output[l]) - Len(name)], "Scenario:")
    /\ Len(output[l + 1]) >= 5
    /\ SubSeq(output[l + 1], 1, 4) = <<"", "", "", "">>
    /\ StartsWith(output[l + 1][5], BallotX)

\* the scenarios line if there is one, else the steps line if there is one
BehaveSummary(s, output, sc, st) ==
  IF sc # <<>> THEN BehaveCounts(output, BehaveScenarios, sc)
  ELSE IF st # <<>> THEN BehaveCounts(output, BehaveSteps, st)
  ELSE s

BehaveFeatureCase(line) == Case(Trim(<<"">> \o Tail(line)), "info")

BehaveScenarioCases(output, scenarioLines) ==
  [i \in 1..Len(scenarioLines) |->
     Case(BehaveScenarioName(scenarioLines[i]),
          IF BehaveScenarioFailed(output, BehaveScenarioName(scenarioLines[i]))
          THEN "failed" ELSE "passed")]

BehaveFilled(standardResult, output, s) ==
  [standardResult EXCEPT
     !.summary = s,
     !.success = Bool(s.failed = 0),
     !.details = @ \o Cases(TestLines(output, BehaveIsFeatureLine), BehaveFeatureCase)
                   \o BehaveScenarioCases(output, TestLines(output, BehaveIsScenarioLine))]

BehaveFill(standardResult, output) ==
  BehaveFilled(standardResult, output,
               BehaveSummary(standardResult.summary, output,
                             Match(output, BehaveScenarios), Match(output, BehaveSteps)))

IntParseBehaveResults(stdout, stderr, standardResult) ==
  BehaveFill(standardResult, Output(stdout, stderr))

\* ---------------------------------------------- IntegrationAgent: Java parser
IntJavaIsTestLine(line) ==
  /\ LineIncludes(line, <<"Test", "">>)
  /\ \/ LineIncludes(line, <<"", "PASSED">>)
     \/ LineIncludes(line, <<"", "FAILED">>)
     \/ LineIncludes(line, <<"", "SKIPPED">>)

IntJavaCase(line) ==
  Case(Trim(line),
       IF LineIncludes(line, <<"", "PASSED">>) THEN "passed"
       ELSE IF LineIncludes(line, <<"", "FAILED">>) THEN "failed" ELSE "skipped")

IntJavaFill(standardResult, output) ==
  [JavaFill(standardResult, JavaSummary(output, standardResult.summary)) EXCEPT
     !.details = @ \o Cases(TestLines(output, IntJavaIsTestLine), IntJavaCase)]

IntParseJavaResults(stdout, stderr, standardResult) ==
  IntJavaFill(standardResult, Output(stdout, stderr))

\* ------------------------------------ IntegrationAgent: Docker Compose parser
DockerIsTestLine(line) ==
  /\ \/ LineIncludes(line, <<"PASS">>)
     \/ LineIncludes(line, <<"FAIL">>)
     \/ LineIncludes(line, <<"ERROR">>)
  /\ ~LineIncludes(line, <<"docker">>)
  /\ ~LineIncludes(line, <<"compose">>)

DockerIsPassed(line) == LineIncludes(line, <<"PASS">>) /\ ~LineIncludes(line, <<"FAIL">>)
DockerIsFailed(line) == LineIncludes(line, <<"FAIL">>) \/ LineIncludes(line, <<"ERROR">>)

\* line.match(/^(\w+)\s+\|/): the container's name, or "" without a match
DockerContainer(line) ==
  IF /\ Len(line) >= 2
     /\ Len(Chars(line[1])) > 0
     /\ \A i \in 1..Len(Chars(line[1])) : IsWordChar(Chars(line[1])[i])
     /\ StartsWith(TrimLeft(Tail(line))[1], "|")
  THEN line[1] ELSE ""

\* the containers of the lines, each once, in the order a Set keeps
RECURSIVE DockerContainers(_, _)
DockerContainers(lines, seen) ==
  IF lines = <<>> THEN <<>>
  ELSE IF DockerContainer(Head(lines)) \in seen \cup {""}
  THEN DockerContainers(Tail(lines), seen)
  ELSE <<DockerContainer(Head(lines))>>
       \o DockerContainers(Tail(lines), seen \cup {DockerContainer(Head(lines))})

DockerSuccess(output) ==
  \/ ~TextIncludes(output, <<"exited", "with", "code">>)
  \/ TextIncludes(output, <<"exited", "with", "code", "0">>)

DockerSummary(s, success, testLines, passed, failed) ==
  IF passed = 0 /\ failed = 0
  THEN [s EXCEPT !.total = 1,
                 !.passed = IF success THEN 1 ELSE 0,
                 !.failed = IF success THEN 0 ELSE 1]
  ELSE [s EXCEPT !.total = IF Len(testLines) # 0 THEN Len(testLines) ELSE 1,
                 !.passed = passed, !.failed = failed]

DockerCases(containers, success) ==
  [i \in 1..Len(containers) |->
     Case(<<"Container:", containers[i]>>, IF success THEN "passed" ELSE "failed")]

DockerFilled(standardResult, output, success, testLines) ==
  [standardResult EXCEPT
     !.success = Bool(success),
     !.summary = DockerSummary(@, success, testLines,
                               Len(SelectSeq(testLines, DockerIsPassed)),
                               Len(SelectSeq(testLines, DockerIsFailed))),
     !.details = @ \o DockerCases(DockerContainers(SplitLines(output), {}), success)]

DockerFill(standardResult, output) ==
  DockerFilled(standardResult, output, DockerSuccess(output),
               TestLines(output, DockerIsTestLine))

IntParseDockerComposeResults(stdout, stderr, standardResult) ==
  DockerFill(standardResult, Output(stdout, stderr))

\* ------------------------------------------ IntegrationAgent: generic parser
IntGenericLooksLikeTest(line) ==
  /\ \/ LineIncludesI(line, "test")
     \/ LineIncludesI(line, "spec")
     \/ LineIncludesI(line, "should")
     \/ \E i \in 1..(Len(line) - 1) : EndsWithIt(Lower(Chars(line[i])))
     \/ LineIncludesI(line, "scenario")
  /\ \/ LineIncludes(line, <<"pass">>)
     \/ LineIncludes(line, <<"fail">>)
     \/ LineIncludes(line, <<"error">>)

IntParseGenericResults(stdout, stderr, standardResult) ==
  GenericResults(stdout, stderr, standardResult, IntGenericLooksLikeTest)

\* ---------------------------- IntegrationAgent._parseIntegrationTestResults
IntParseDispatch(stdout, stderr, projectType, standardResult) ==
  CASE projectType = "cypress" -> IntParseCypressResults(stdout, stderr, standardResult)
    [] projectType = "playwright" -> IntParsePlaywrightResults(stdout, stderr, standardResult)
    [] projectType \in {"jest-dom", "jest"} ->
         IntParseJestResults(stdout, stderr, standardResult)
    [] projectType = "mocha-supertest" -> IntParseMochaResults(stdout, stderr, standardResult)
    [] projectType \in {"selenium-python", "pytest"} ->
         IntParsePytestResults(stdout, stderr, standardResult)
    [] projectType = "behave" -> IntParseBehaveResults(stdout, stderr, standardResult)
    [] projectType \in {"selenium-java", "cucumber-java", "rest-assured", "maven", "gradle"} ->
         IntParseJavaResults(stdout, stderr, standardResult)
    [] projectType = "docker-compose" ->
         IntParseDockerComposeResults(stdout, stderr, standardResult)
    [] OTHER -> IntParseGenericResults(stdout, stderr, standardResult)

\* every parser of the switch returns; the catch block is for one that throws
IntParseIntegrationTestResults(stdout, stderr, projectType) ==
  ParseCaught(Returned(IntParseDispatch(stdout, stderr, projectType,
                                        StandardResult(stdout, stderr))))

\* ------------------------------------------------------ the parsers' inputs
\* The lines the parsers are run on, by project type
GenericLines ==
  {<<"test", "adds", "pass">>, <<"spec", "subs", "fail">>, <<"it", "works", "error">>,
   <<"ERROR">>, <<"ok">>, <<"", "", "passed">>, <<"Exception">>}

PythonLines ==
  {<<"collected", "2", "items">>, <<"2", "passed">>, <<"1", "passed,", "1", "failed">>,
   <<"1", "skipped">>, <<"t.py::test_a", "PASSED">>, <<"t.py::test_b", "FAILED">>}

JavaLines ==
  {<<"Tests", "run:", "2,", "Failures:", "0,", "Errors:", "0,", "Skipped:", "0">>,
   <<"Tests", "run:", "3,", "Failures:", "1,", "Errors:", "1,", "Skipped:", "1">>,
   <<"Tests", "run:", "1,", "Failures:", "1,", "Errors:", "1,", "Skipped:", "0">>,
   <<"BUILD", "FAILURE">>}

RustLines ==
  {<<"test", "result:", "ok.", "1", "passed;", "0", "failed;", "1", "ignored;">>,
   <<"test", "result:", "FAILED.", "1", "passed;", "1", "failed;", "0", "ignored;">>,
   <<"test", "adds", "...", "ok">>, <<"test", "subs", "...", "FAILED">>,
   <<"test", "muls", "...", "ignored">>}

GoLines ==
  {<<"---", "PASS:", "TestAdd">>, <<"---", "FAIL:", "TestSub">>, <<"---", "SKIP:", "TestMul">>,
   <<"PASS">>, <<"FAIL">>, <<"ok">>}

JestUnitLines ==
  {<<JestJsonPassing>>, <<JestJsonFailing>>, <<JestJsonTodo>>, <<JestJsonNoResults>>,
   <<JsonNull>>, <<"test", "adds", "pass">>, <<"FAIL">>}

MochaUnitLines ==
  {<<MochaJsonPassing>>, <<MochaJsonFailing>>, <<MochaJsonNoFullTitle>>,
   <<MochaJsonNoStats>>, <<"test", "adds", "pass">>, <<"FAIL">>}

CypressLines ==
  {<<"", "", "2", "passing">>, <<"", "", "1", "failing">>, <<"", "", "1", "pending">>,
   <<"", "", CheckMark, "login">>, <<"", "", BallotX, "logout">>, <<"(Run", "Finished)">>}

PlaywrightLines ==
  {<<"", "", "2", "passed">>, <<"", "", "1", "passed", "/", "1", "failed">>,
   <<"", "", "1", "failed">>, <<"", "", CheckMark, "login">>, <<"", "", BallotX, "logout">>}

JestIntLines ==
  {<<"Tests:", "2", "passed,", "0", "failed,", "2", "total">>,
   <<"Tests:", "3", "passed,", "1", "failed,", "4", "total">>,
   <<"Tests:", "1", "skipped,", "1", "passed,", "2", "total">>,
   <<"PASS", "login">>, <<"FAIL", "logout">>, <<"", "", CheckMark, "login">>,
   <<"", "", MultiplicationX, "logout">>}

MochaIntLines ==
  {<<"", "", "2", "passing">>, <<"", "", "1", "failing">>, <<"", "", "1", "pending">>,
   <<"", "", CheckMark, "login">>, <<"", "", HeavyX, "logout">>, <<"", "", "-", "api">>}

BehaveLines ==
  {<<"1", "scenarios", "passed,", "1", "failed,", "0", "skipped">>,
   <<"3", "steps", "passed,", "0", "failed,", "1", "skipped">>,
   <<"Feature:", "login">>, <<"", "", "Scenario:", "login">>,
   <<"", "", "", "", BallotX, "login">>}

JavaIntLines ==
  JavaLines \cup {<<"Test", "LoginTest", "PASSED">>, <<"Test", "CartTest", "FAILED">>}

DockerLines ==
  {<<"web", "|", "PASS", "login">>, <<"db", "|", "ERROR">>, <<"web", "|", "FAIL", "logout">>,
   <<"web", "exited", "with", "code", "0">>, <<"db", "exited", "with", "code", "1">>,
   <<"docker", "compose", "FAIL">>}

IntTags ==
  {"cypress", "playwright", "protractor", "jest-dom", "jest", "mocha-supertest", "node",
   "selenium-python", "pytest", "behave", "python", "selenium-java", "cucumber-java",
   "rest-assured", "maven", "gradle", "docker-compose", "unknown"}

IntLines(tag) ==
  CASE tag = "cypress" -> CypressLines
    [] tag = "playwright" -> PlaywrightLines
    [] tag \in {"jest-dom", "jest"} -> JestIntLines
    [] tag = "mocha-supertest" -> MochaIntLines
    [] tag \in {"selenium-python", "pytest"} -> PythonLines
    [] tag = "behave" -> BehaveLines
    [] tag \in {"selenium-java", "cucumber-java", "rest-assured", "maven", "gradle"} ->
         JavaIntLines
    [] tag = "docker-compose" -> DockerLines
    [] OTHER -> GenericLines \cup {<<"scenario", "login", "pass">>}

UnitTags ==
  {"jest", "mocha", "karma", "node", "pytest", "unittest", "python", "maven", "gradle",
   "rust", "go", "empty", "unknown"}

UnitLines(tag) ==
  CASE tag = "jest" -> JestUnitLines
    [] tag = "mocha" -> MochaUnitLines
    [] tag \in {"pytest", "python"} -> PythonLines
    [] tag \in {"maven", "gradle"} -> JavaLines
    [] tag = "rust" -> RustLines
    [] tag = "go" -> GoLines
    [] OTHER -> GenericLines

\* what is on stderr
ErrTexts == {<<>>, <<<<"warning">>>>, <<<<"1", "failed">>>>}

\* the texts of at most n lines
RECURSIVE TextsUpTo(_, _)
TextsUpTo(lines, n) ==
  IF n = 0 THEN {<<>>}
  ELSE TextsUpTo(lines, n - 1)
       \cup {Append(t, l) : t \in TextsUpTo(lines, n - 1), l \in lines}

\* ================================================================ detection
\* A repository tree: the names in its root directory (entries), whether
\* package.json parses (manifest), the merged dependencies and the scripts of
\* package.json, the words pom.xml contains (pom) and the paths below the
\* root that exist (paths).
Tree(entries, manifest, deps, scripts, pom, paths) ==
  [entries |-> entries, manifest |-> manifest, deps |-> deps, scripts |-> scripts,
   pom |-> pom, paths |-> paths]

\* fs.existsSync(path.join(repoPath, name))
Exists(tree, name) == name \in tree.entries \/ name \in tree.paths

\* files.some(file => file.includes(s))
SomeFileIncludes(tree, s) == \E f \in tree.entries : WordIncludes(f, s)

\* files.filter(file => file !== '.git').length === 0
OnlyGit(tree) == tree.entries \ {".git"} = {}

\* a detection ends with a tag or by throwing (JSON.parse of the manifest)
Tag(tag) == [threw |-> FALSE, tag |-> tag, message |-> ""]
DetectThrew == [threw |-> TRUE, tag |-> "", message |-> "SyntaxError"]

UnitDetectProjectType(tree) ==
  IF Exists(tree, "package.json")
  THEN IF tree.manifest # "ok" THEN DetectThrew
       ELSE IF "jest" \in tree.deps THEN Tag("jest")
       ELSE IF "mocha" \in tree.deps THEN Tag("mocha")
       ELSE IF "karma" \in tree.deps THEN Tag("karma")
       ELSE Tag("node")
  ELSE IF Exists(tree, "requirements.txt") \/ Exists(tree, "setup.py")
  THEN IF SomeFileIncludes(tree, "pytest") THEN Tag("pytest")
       ELSE IF SomeFileIncludes(tree, "unittest") THEN Tag("unittest")
       ELSE Tag("python")
  ELSE IF Exists(tree, "pom.xml") THEN Tag("maven")
  ELSE IF Exists(tree, "build.gradle") THEN Tag("gradle")
  ELSE IF Exists(tree, "Cargo.toml") THEN Tag("rust")
  ELSE IF Exists(tree, "go.mod") THEN Tag("go")
  ELSE IF OnlyGit(tree) THEN Tag("empty")
  ELSE Tag("unknown")

\* const deps = { ...packageJson.dependencies, ...packageJson.devDependencies }:
\* the names either of them declares
MergedDeps(dependencies, devDependencies) == dependencies \cup devDependencies

\* a detector that asks for jest before the end-to-end frameworks
IntManifestTagJestFirst(deps) ==
  IF "jest" \in deps
     /\ ("@testing-library/react" \in deps \/ "@testing-library/vue" \in deps)
  THEN "jest-dom"
  ELSE IF "jest" \in deps THEN "jest"
  ELSE IF "cypress" \in deps THEN "cypress"
  ELSE IF "@playwright/test" \in deps THEN "playwright"
  ELSE IF "protractor" \in deps THEN "protractor"
  ELSE IF "mocha" \in deps /\ "supertest" \in deps THEN "mocha-supertest"
  ELSE "node"

\* the tag of a repository that has a package.json, by its dependencies
IntManifestTag(deps) ==
  IF "cypress" \in deps THEN "cypress"
  ELSE IF "@playwright/test" \in deps THEN "playwright"
  ELSE IF "protractor" \in deps THEN "protractor"
  ELSE IF "jest" \in deps
          /\ ("@testing-library/react" \in deps \/ "@testing-library/vue" \in deps)
  THEN "jest-dom"
  ELSE IF "jest" \in deps THEN "jest"
  ELSE IF "mocha" \in deps /\ "supertest" \in deps THEN "mocha-supertest"
  ELSE "node"

IntDetectProjectType(tree) ==
  IF OnlyGit(tree) THEN Tag("empty")
  ELSE IF Exists(tree, "package.json")
  THEN IF tree.manifest # "ok" THEN DetectThrew ELSE Tag(IntManifestTag(tree.deps))
  ELSE IF Exists(tree, "requirements.txt") \/ Exists(tree, "setup.py")
  THEN IF SomeFileIncludes(tree, "selenium") THEN Tag("selenium-python")
       ELSE IF SomeFileIncludes(tree, "pytest") THEN Tag("pytest")
       ELSE IF SomeFileIncludes(tree, "behave") THEN Tag("behave")
       ELSE Tag("python")
  ELSE IF Exists(tree, "pom.xml")
  THEN IF "selenium" \in tree.pom THEN Tag("selenium-java")
       ELSE IF "cucumber" \in tree.pom THEN Tag("cucumber-java")
       ELSE IF "rest-assured" \in tree.pom THEN Tag("rest-assured")
       ELSE Tag("maven")
  ELSE IF Exists(tree, "build.gradle") THEN Tag("gradle")
  ELSE IF Exists(tree, "docker-compose.yml") THEN Tag("docker-compose")
  ELSE Tag("unknown")

DetectProjectType(kind, tree) ==
  IF kind = "unit" THEN UnitDetectProjectType(tree) ELSE IntDetectProjectType(tree)

\* ================================================================= commands
\* null
NoCommand == ""

EchoCommand == "echo \"Repository is empty, no tests to run\""

\* JSON.parse(fs.readFileSync(package.json)).scripts: it throws when the
\* manifest is not there or cannot be parsed
ManifestRead(tree) ==
  IF Exists(tree, "package.json") /\ tree.manifest = "ok" THEN Returned(tree.scripts)
  ELSE Thrown({}, "SyntaxError")

\* the scripts read with no try/catch around the reading
ManifestScriptsUncaught(tree) == ManifestRead(tree)

\* the same inside try/catch: the catch block logs the error and the switch
\* case goes on to its `return null`, as it does for a manifest with no
\* script
ManifestScripts(tree) ==
  IF ManifestRead(tree).threw THEN Returned({}) ELSE ManifestRead(tree)

\* what the case 'node' ends with, the scripts read being m: the command c,
\* or the error of the reading
NodeCommand(m, c) == IF m.threw THEN Thrown(NoCommand, m.message) ELSE Returned(c)

\* pipListHasPytest: whether 'pip list | grep pytest' exits with 0
\* the cases of the switch that return at once
UnitCommandOf(projectType, pipListHasPytest) ==
  CASE projectType = "empty" -> EchoCommand
    [] projectType = "jest" -> "npx jest --json"
    [] projectType = "mocha" -> "npx mocha --reporter json"
    [] projectType = "karma" -> "npx karma start --single-run --reporters json"
    [] projectType = "pytest" -> "python -m pytest -v"
    [] projectType = "unittest" -> "python -m unittest discover"
    [] projectType = "python" ->
         IF pipListHasPytest THEN "python -m pytest -v" ELSE "python -m unittest discover"
    [] projectType = "maven" -> "mvn test"
    [] projectType = "gradle" -> "./gradlew test"
    [] projectType = "rust" -> "cargo test"
    [] projectType = "go" -> "go test ./..."
    [] OTHER -> NoCommand

\* what the function ends with: the command it returns (null: NoCommand), or
\* the error it throws
UnitDetermineTestCommand(tree, projectType, pipListHasPytest) ==
  IF projectType = "node"
  THEN NodeCommand(ManifestScripts(tree),
                   IF "test" \in ManifestScripts(tree).result THEN "npm test"
                   ELSE NoCommand)
  ELSE Returned(UnitCommandOf(projectType, pipListHasPytest))

\* the cases of the switch that do not read the manifest
IntCommandOf(tree, projectType) ==
  CASE projectType = "cypress" -> "npx cypress run"
    [] projectType = "playwright" -> "npx playwright test"
    [] projectType = "protractor" -> "npx protractor e2e/protractor.conf.js"
    [] projectType = "jest-dom" -> "npx jest --testPathPattern=integration"
    [] projectType = "jest" ->
         IF Exists(tree, "tests/integration") THEN "npx jest tests/integration"
         ELSE IF Exists(tree, "__tests__/integration") THEN "npx jest __tests__/integration"
         ELSE IF Exists(tree, "integration") THEN "npx jest integration"
         ELSE "npx jest --testPathPattern=integration"
    [] projectType = "mocha-supertest" ->
         IF Exists(tree, "test/integration") THEN "npx mocha test/integration"
         ELSE IF Exists(tree, "tests/integration") THEN "npx mocha tests/integration"
         ELSE "npx mocha \"**/*.integration.js\""
    [] projectType = "selenium-python" -> "python -m pytest tests/integration"
    [] projectType = "pytest" ->
         IF Exists(tree, "tests/integration") THEN "python -m pytest tests/integration"
         ELSE IF Exists(tree, "integration") THEN "python -m pytest integration"
         ELSE "python -m pytest -k \"integration\""
    [] projectType = "behave" -> "behave"
    [] projectType \in {"selenium-java", "cucumber-java", "rest-assured", "maven"} ->
         "mvn verify"
    [] projectType = "gradle" -> "./gradlew integrationTest"
    [] projectType = "docker-compose" ->
         "docker-compose up --abort-on-container-exit --exit-code-from test"
    [] OTHER -> NoCommand

IntDetermineIntegrationTestCommand(tree, projectType) ==
  IF projectType = "node"
  THEN NodeCommand(ManifestScripts(tree),
                   IF "test:integration" \in ManifestScripts(tree).result
                   THEN "npm run test:integration"
                   ELSE IF "integration" \in ManifestScripts(tree).result
                   THEN "npm run integration"
                   ELSE IF "e2e" \in ManifestScripts(tree).result THEN "npm run e2e"
                   ELSE NoCommand)
  ELSE Returned(IntCommandOf(tree, projectType))

\* testCommand || await this._determine...(repoPath, projectType)
ResolveCommand(kind, testCommand, tree, projectType, pipListHasPytest) ==
  IF testCommand # NoCommand THEN Returned(testCommand)
  ELSE IF kind = "unit" THEN UnitDetermineTestCommand(tree, projectType, pipListHasPytest)
  ELSE IntDetermineIntegrationTestCommand(tree, projectType)

\* an `if (!command)` that lets every command through
CommandMissingNever(command) == FALSE

\* if (!command) throw new Error('Could not determine ... test command ...')
CommandMissing(command) == command = NoCommand

\* ========================================================= running a command
\* What a promise settles with.  A field the value does not have is "absent"
\* (code, killed) or <<>> (stdout, stderr, which are <<text>> when present).
\* resolve({ stdout, stderr })
Resolved(stdout, stderr) ==
  [state |-> "resolved", message |-> <<>>, stdout |-> <<stdout>>, stderr |-> <<stderr>>,
   code |-> "absent", killed |-> "absent"]

\* reject(new Error(message)): an error that has its message and nothing else
Rejected(message) ==
  [state |-> "rejected", message |-> message, stdout |-> <<>>, stderr |-> <<>>,
   code |-> "absent", killed |-> "absent"]

\* the error child_process.exec rejects with: code, killed, stdout and stderr
ExecError(message, code, killed, stdout, stderr) ==
  [state |-> "rejected", message |-> message, stdout |-> <<stdout>>, stderr |-> <<stderr>>,
   code |-> code, killed |-> killed]

\* One run of a command: the child (running, its exit code once closed,
\* killed, errored), the captured buffers, the timer, the promise (<<>> while
\* pending) and, for the record, every resolve/reject call made on it.
NoExecution ==
  [running |-> FALSE, code |-> "none", killed |-> FALSE, errored |-> FALSE,
   stdout |-> <<>>, stderr |-> <<>>, timer |-> "none", promise |-> <<>>, calls |-> <<>>]

\* a spawn that arms no timer
SpawnedUntimed(timeout) == [NoExecution EXCEPT !.running = TRUE]

\* spawn(cmd, args, ...); if (options.timeout) timeoutId = setTimeout(...)
Spawned(timeout) ==
  [NoExecution EXCEPT !.running = TRUE,
                      !.timer = IF timeout # 0 THEN "armed" ELSE "none"]

\* resolve(v) / reject(v): the first call settles the promise, later ones are
\* ignored
Settle(ex, v) ==
  [ex EXCEPT !.promise = IF ex.promise = <<>> THEN <<v>> ELSE ex.promise,
             !.calls = Append(ex.calls, v)]

\* if (timeoutId) clearTimeout(timeoutId)
ClearTimeout(timer) == IF timer = "armed" THEN "cleared" ELSE timer

\* a data handler that puts the chunk in front of the buffer
OnStdoutDataPrepends(ex, chunk) == [ex EXCEPT !.stdout = chunk \o ex.stdout]

\* proc.stdout.on('data'): stdout += str
OnStdoutData(ex, chunk) == [ex EXCEPT !.stdout = ex.stdout \o chunk]

\* proc.stderr.on('data'): stderr += str
OnStderrData(ex, chunk) == [ex EXCEPT !.stderr = ex.stderr \o chunk]

\* proc.on('close', code)
OnClose(ex, code) ==
  LET closed == [ex EXCEPT !.running = FALSE, !.code = code,
                           !.timer = ClearTimeout(ex.timer)]
  IN  IF code # "0"
      THEN Settle(closed, Rejected(<<"Command failed with exit code", code>>))
      ELSE Settle(closed, Resolved(ex.stdout, ex.stderr))

\* an error handler that leaves the timer armed
OnErrorKeepsTimer(ex) == Settle([ex EXCEPT !.errored = TRUE], Rejected(<<"spawn error">>))

\* proc.on('error', err)
OnError(ex) ==
  Settle([ex EXCEPT !.errored = TRUE, !.timer = ClearTimeout(ex.timer)],
         Rejected(<<"spawn error">>))

\* the setTimeout callback: proc.kill(); reject(new Error('Command timed out ...'))
OnTimeout(ex) ==
  Settle([ex EXCEPT !.timer = "fired", !.killed = TRUE], Rejected(<<"Command timed out">>))

\* How child_process.exec ends (unit runner): the callback's error is null
\* for exit code 0 and an error carrying code, killed, stdout and stderr
\* otherwise; how is "exit0", "exit1", "timeout", "maxBuffer" or "spawn".
ExecAsync(how, stdout, stderr) ==
  LET v == CASE how = "exit0" -> Resolved(stdout, stderr)
             [] how = "exit1" -> ExecError(<<"Command failed">>, "1", "false", stdout, stderr)
             [] how = "timeout" -> ExecError(<<"Command failed">>, "null", "true", stdout, stderr)
             [] how = "maxBuffer" ->
                  ExecError(<<"stdout maxBuffer length exceeded">>,
                            "ERR_CHILD_PROCESS_STDIO_MAXBUFFER", "false", stdout, stderr)
             [] how = "spawn" -> ExecError(<<"spawn error">>, "ENOENT", "false", <<>>, <<>>)
  IN  [running |-> FALSE,
       code |-> CASE how = "exit0" -> "0" [] how = "exit1" -> "1" [] OTHER -> "null",
       killed |-> how \in {"timeout", "maxBuffer"}, errored |-> how = "spawn",
       stdout |-> stdout, stderr |-> stderr,
       timer |-> IF how = "timeout" THEN "fired" ELSE "cleared",
       promise |-> <<v>>, calls |-> <<v>>]

\* ------------------------------------------------------------ the log stream
\* fs.createWriteStream(logFile): what was written, in order, whether end()
\* was called, and whether a write came after end()
NoLogStream == [open |-> FALSE, ended |-> FALSE, written |-> <<>>, late |-> FALSE]

CreateWriteStream == [NoLogStream EXCEPT !.open = TRUE]

\* logStream.write(text), text coming from src
LogWrite(log, src, text) ==
  IF ~log.open THEN log
  ELSE IF log.ended THEN [log EXCEPT !.late = TRUE]
  ELSE [log EXCEPT !.written = Append(log.written, [src |-> src, text |-> text])]

\* logStream.end()
LogEnd(log) == IF log.open THEN [log EXCEPT !.ended = TRUE] ELSE log

\* ------------------------------------------------------------- notifications
\* a notification that lets the failure of its delivery out
NotifyCoralProtocolRethrows(delivered) ==
  [threw |-> ~delivered, error |-> Rejected(<<"notification failed">>)]

\* _notifyCoralProtocol(data): try { deliver } catch { console.error }: returns
\* normally whether or not the delivery failed
NotifyCoralProtocol(delivered) == [threw |-> FALSE, error |-> Rejected(<<>>)]

\* ------------------------------------------------------------------ outcomes
NoOutcome == [kind |-> "none", result |-> <<>>, error |-> <<>>]

Returns(result) == [kind |-> "returned", result |-> <<result>>, error |-> <<>>]

Raises(error) == [kind |-> "raised", result |-> <<>>, error |-> <<error>>]

\* throw new Error(`Repository path does not exist: ${repoPath}`)
PathError == Rejected(<<"Repository path does not exist">>)

\* throw new Error(`Could not determine ... test command for project type ...`)
NoCommandError == Rejected(<<"Could not determine test command">>)

\* throw new Error(`Failed to run unit tests: ${error.message}`)
WrapError(kind, error) ==
  Rejected(<<IF kind = "unit" THEN "Failed to run unit tests"
             ELSE "Failed to run integration tests">> \o error.message)

\* the result runTests of the integration agent builds for an empty repository
IntEmptyResult ==
  [success |-> "true",
   summary |-> [total |-> 1, passed |-> 0, failed |-> 0, skipped |-> 1],
   details |-> <<EmptyRepositoryCase>>,
   rawOutput |-> <<<<"Repository", "is", "empty,", "no", "integration", "tests", "to", "run">>>>,
   rawError |-> <<>>,
   timestamp |-> "now",
   error |-> <<>>]

\* what the echo command of the empty repository prints
EchoOutput == <<<<"Repository", "is", "empty,", "no", "tests", "to", "run">>>>

\* ===================================================== runTests: the inputs
\* config.timeout || 600000 and config.timeout || 1200000, no timeout configured
UnitTimeout == 600000

IntTimeout == 1200000

\* the number of stdout chunks and of stderr chunks one run may deliver
MaxChunks == 2

MaxErrChunks == 1

\* the chunks a process writes: each a text of one line
OutChunks == {<<<<"1", "passed">>>>, <<<<"1", "failed">>>>}

ErrChunks == {<<<<"warning">>>>}

RECURSIVE ChunkTexts(_, _)
\* the texts made of at most n chunks
ChunkTexts(chunks, n) ==
  IF n = 0 THEN {<<>>}
  ELSE ChunkTexts(chunks, n - 1)
       \cup {t \o c : t \in ChunkTexts(chunks, n - 1), c \in chunks}

\* params.testCommand: none, or a command of the caller's
Overrides == {NoCommand, "npm run custom"}

EmptyTree == Tree({".git"}, "ok", {}, {}, {}, {})

JestTree == Tree({".git", "package.json"}, "ok", {"jest"}, {"test"}, {}, {})

NodeTree == Tree({".git", "package.json"}, "ok", {}, {}, {}, {})

MalformedTree == Tree({".git", "package.json"}, "malformed", {}, {}, {}, {})

PythonTree == Tree({".git", "requirements.txt"}, "ok", {}, {}, {}, {})

UnknownTree == Tree({".git", "README.md"}, "ok", {}, {}, {}, {})

Trees == {EmptyTree, JestTree, NodeTree, MalformedTree, PythonTree, UnknownTree}

\* a manifest with scripts, and a repository with directories of
\* integration tests
ScriptsTree == Tree({".git", "package.json"}, "ok", {}, {"test", "e2e"}, {}, {})

IntegrationDirTree ==
  Tree({".git", "package.json", "integration"}, "ok", {"jest"}, {"integration"}, {},
       {"tests/integration"})

\* the repositories the resolution of the command is tried on
ResolveTrees == Trees \cup {ScriptsTree, IntegrationDirTree}

\* whether _determineTestCommand runs 'pip list | grep pytest'
UsesPipList(kind, testCommand, projectType) ==
  kind = "unit" /\ testCommand = NoCommand /\ projectType = "python"

\* how a command run by child_process.exec can end: the echo of the empty
\* repository prints its line and exits with 0
ExecEnds(command) ==
  IF command = EchoCommand
  THEN {<<"exit0", EchoOutput, <<>>>>}
  ELSE {<<how, out, err>> : how \in {"exit0", "exit1", "timeout", "maxBuffer"},
                            out \in ChunkTexts(OutChunks, MaxChunks),
                            err \in ChunkTexts(ErrChunks, MaxErrChunks)}
       \cup {<<"spawn", <<>>, <<>>>>}

\* the parser runTests calls, by the kind of agent
ParseResults(kind, stdout, stderr, tag) ==
  IF kind = "unit" THEN UnitParseTestResults(stdout, stderr, tag)
  ELSE IntParseIntegrationTestResults(stdout, stderr, tag)

\* =================================================== the files of an invocation
\* The clock is counted in ticks, TicksPerMs of them to the millisecond.
TicksPerMs == 2

\* new Date().toISOString().replace(/[:.]/g, '-'): the time to the millisecond
Timestamp(tick) == tick \div TicksPerMs

\* `${repoId}` of a repoId the caller did not pass
NoRepoId == "undefined"

\* path.join(this.logDir, `integration-${repoId}-${timestamp}.log`)
LogFile(id, timestamp) == <<"logs", "integration", id, timestamp, "log">>

\* path.join(this.logDir, `screenshots-${repoId}-${timestamp}`)
ScreenshotDir(id, timestamp) == <<"logs", "screenshots", id, timestamp>>

\* one runTests invocation of the integration agent, as far as its files go:
\* overlaps holds the invocations that were under way when it started
Invocation(id, capture, tick, others) ==
  [repoId |-> id, captureScreenshots |-> capture, timestamp |-> Timestamp(tick),
   logFile |-> LogFile(id, Timestamp(tick)), screenshotDir |-> <<>>,
   active |-> TRUE, overlaps |-> others]

RepoIds == {NoRepoId, "repo-1"}

MaxRuns == 2

MaxTicks == 3

\* ======================================================= BlockchainLogger
\* A program ID as the configuration gives it: none, or a string of chars
\* characters, all of the base58 alphabet or not, that decodes to bytes bytes
NoProgramId == <<>>

Key(chars, base58, bytes) == [chars |-> chars, base58 |-> base58, bytes |-> bytes]

\* the regular expression /^[1-9A-HJ-NP-Za-km-z]{43,44}$/, then new PublicKey(key)
IsValidPublicKey(key) ==
  /\ key # NoProgramId
  /\ key.chars \in 43..44 /\ key.base58
  /\ key.bytes = 32

\* config and process.env.NFT_STORAGE_API_KEY; "" is a property that is absent
Config(programId, ipfsApiKey, storageType, envApiKey) ==
  [programId |-> programId, ipfsApiKey |-> ipfsApiKey, storageType |-> storageType,
   envApiKey |-> envApiKey]

\* config.ipfsApiKey || process.env.NFT_STORAGE_API_KEY
IpfsApiKey(config) ==
  IF config.ipfsApiKey # "" THEN config.ipfsApiKey ELSE config.envApiKey

\* a constructor that takes the program ID as it comes
ConstructorUnchecked(config) ==
  [programId |-> IF config.programId # NoProgramId THEN <<config.programId>> ELSE <<>>,
   storageType |-> IF config.storageType # "" THEN config.storageType ELSE "ipfs",
   ipfsApiKey |-> IpfsApiKey(config),
   ipfsClient |-> IpfsApiKey(config) # ""]

\* the fields of the logger the constructor sets; programId is <<>> for null
Constructor(config) ==
  [programId |-> IF config.programId # NoProgramId /\ IsValidPublicKey(config.programId)
                 THEN <<config.programId>> ELSE <<>>,
   storageType |-> IF config.storageType # "" THEN config.storageType ELSE "ipfs",
   ipfsApiKey |-> IpfsApiKey(config),
   ipfsClient |-> IpfsApiKey(config) # ""]

\* what _storeResults returns: { cid, url }
StorageResult == [cid |-> "cid", url |-> "https://cid.ipfs.nftstorage.link"]

\* what _logToBlockchain returns, a simulated transaction
BlockchainResult == [transactionId |-> "simulated_tx", blockHeight |-> 12345678]

\* path.join(this.localStoragePath, `${repoId}-${type}-${timestamp}.json`)
BackupPath(call) == <<"blockchain_logs", call.repoId, call.type, "now", "json">>

\* the file _saveLocalBackup writes
Backup(call, storage, blockchain) ==
  [path |-> BackupPath(call),
   data |-> [repoId |-> call.repoId, type |-> call.type, results |-> call.results,
             storage |-> storage, blockchain |-> blockchain]]

\* the response of logResults when the try block ends; storage and
\* blockchain are <<>> when the response has no such property
Response(call, storage, blockchain) ==
  [success |-> "true", type |-> call.type, repoId |-> call.repoId,
   localBackup |-> <<BackupPath(call)>>, storage |-> storage, blockchain |-> blockchain,
   error |-> <<>>]

\* a response of the catch block that has no localBackup
FailureResponseNoBackup(call, message) ==
  [success |-> "false", type |-> call.type, repoId |-> call.repoId,
   localBackup |-> <<>>, storage |-> <<>>, blockchain |-> <<>>, error |-> <<message>>]

\* the response of the catch block of logResults
FailureResponse(call, message) ==
  [success |-> "false", type |-> call.type, repoId |-> call.repoId,
   localBackup |-> <<BackupPath(call)>>, storage |-> <<>>, blockchain |-> <<>>,
   error |-> <<message>>]

\* no call made yet of _storeResults, ipfsClient.storeBlob, _logToBlockchain
\* and _saveLocalBackup
NoAttempts ==
  [storeResults |-> 0, storeBlob |-> 0, logToBlockchain |-> 0, saveLocalBackup |-> 0]

ProgramIds ==
  {NoProgramId, Key(44, TRUE, 32), Key(43, TRUE, 32), Key(32, TRUE, 32), Key(44, FALSE, 0)}

Configs ==
  {Config(id, key, storage, envKey) :
     id \in ProgramIds, key \in {"", "key"}, storage \in {"", "arweave"},
     envKey \in {"", "env-key"}}

\* the arguments of logResults
LogCalls ==
  [results : {IntEmptyResult, StandardResult(<<>>, <<>>)}, type : {"unit", "integration"},
   repoId : RepoIds]

\* ===================================================== POST /api/run-tests
\* what a request body or an object has for a property it lacks
NoValue == "undefined"

\* !v, for the strings of the model
Falsy(v) == v \in {NoValue, ""}

\* req.body as the handler reads it: repoUrl, branch, auth and testTypes
\* (<<>> when the body has none, <<the set of the types named>> otherwise)
RepoUrls == {NoValue, "", "https://host/repo.git"}

Bodies ==
  [repoUrl : RepoUrls, branch : {NoValue, "dev"}, auth : {NoValue, "token"},
   testTypes : {<<>>} \cup {<<types>> : types \in SUBSET {"unit", "integration"}}]

\* testTypes = ['unit', 'integration'] by default
TestTypes(body) ==
  IF body.testTypes = <<>> THEN {"unit", "integration"} ELSE body.testTypes[1]

\* the object the handler passes to cloneRepository: { url, branch, auth }
CloneParams(body) ==
  [url |-> body.repoUrl,
   branch |-> IF body.branch = NoValue THEN "main" ELSE body.branch,
   auth |-> IF Falsy(body.auth) THEN NoValue ELSE body.auth]

\* const { repoUrl, branch, accessToken, repoId } = params: a property the
\* object lacks is undefined
Property(params, name) == IF name \in DOMAIN params THEN params[name] ELSE NoValue

\* throw new Error('Repository URL is required')
UrlRequired == Rejected(<<"Repository URL is required">>)

\* what cloneRepository returns
CloneResult(branch) ==
  [success |-> TRUE, repoId |-> "repo-1", path |-> "repos/repo-1",
   branch |-> IF Falsy(branch) THEN "default" ELSE branch]

\* RepoClonerAgent.cloneRepository(params); cloned: git clone succeeds
CloneRepository(params, cloned) ==
  IF Falsy(Property(params, "repoUrl")) THEN Raises(UrlRequired)
  ELSE IF cloned THEN Returns(CloneResult(Property(params, "branch")))
  ELSE Raises(Rejected(<<"Failed to clone repository">>))

\* the response of the handler; status 0 while there is none
NoResponse == [status |-> 0, error |-> <<>>]

\* res.json(results)
Ok200 == [status |-> 200, error |-> <<>>]

\* res.status(status).json({ error: message })
ErrorResponse(status, message) == [status |-> status, error |-> message]

\* results.unitTests and results.integrationTests, null at first
NoResults == [unitTests |-> "null", integrationTests |-> "null"]

\* ================================================================ the state
\* the parsers run on their own (SpecParse)
VARIABLES pKind, pTag, pStdout, pStderr, pResult

\* one runTests invocation (Spec): its parameters and the repository,
VARIABLES kind, repoPathOk, testCommand, tree

\* where it is, the stages it went through, what it has fixed so far,
VARIABLES pc, stageLog, projectType, command

\* the test process and its promise, the processes started, the parser calls,
VARIABLES ex, spawns, probes, parserCalls

\* the log stream, the notifications sent, those whose delivery failed, and
\* how the invocation ended
VARIABLES logStream, notifications, undelivered, outcome

\* several runTests invocations of the integration agent and their files
\* (SpecFiles): the clock and the invocations started so far
VARIABLES now, invocations

\* one logResults call of a BlockchainLogger (SpecLog): the configuration,
\* the logger built from it, the arguments of the call, where the call is,
\* its storageResult and blockchainResult, the calls it made, the backup
\* files on disk and how it ended
VARIABLES logConfig, logger, logCall, logPc, storageResult, blockchainResult, attempts,
          backups, response

\* one POST /api/run-tests request (SpecRequest, SpecStages): the body,
\* where the handler is, what the clone step returned, the results gathered,
\* the response sent and the directory of the clone
VARIABLES request, hPc, cloneResult, reqResults, httpResponse, repoDir

\* the detection of the integration agent on a manifest (SpecDetect): the
\* dependencies and devDependencies of package.json and the tag returned
VARIABLES dependencies, devDependencies, detected

\* the resolution of the command on its own (SpecResolve): the agent, the
\* tag and the repository it is called with, and what it ended with
VARIABLES rKind, rTag, rTree, rResult

parseVars == <<pKind, pTag, pStdout, pStderr, pResult>>

resolveVars == <<rKind, rTag, rTree, rResult>>

loggerVars ==
  <<logConfig, logger, logCall, logPc, storageResult, blockchainResult, attempts,
    backups, response>>

fileVars == <<now, invocations>>

requestVars == <<request, hPc, cloneResult, reqResults, httpResponse, repoDir>>

detectVars == <<dependencies, devDependencies, detected>>

\* what a step of one runTests invocation leaves alone
besidesRun == <<parseVars, resolveVars, fileVars, loggerVars, requestVars, detectVars>>

inputs == <<kind, repoPathOk, testCommand, tree>>

runVars ==
  <<kind, repoPathOk, testCommand, tree, pc, stageLog, projectType, command, ex,
    spawns, probes, parserCalls, logStream, notifications, undelivered, outcome>>

vars ==
  <<parseVars, runVars, resolveVars, fileVars, loggerVars, requestVars, detectVars>>

RunIdle ==
  /\ kind = "unit" /\ repoPathOk = FALSE /\ testCommand = NoCommand /\ tree = EmptyTree
  /\ pc = "Idle" /\ stageLog = <<>> /\ projectType = "" /\ command = NoCommand
  /\ ex = NoExecution /\ spawns = 0 /\ probes = 0 /\ parserCalls = 0
  /\ logStream = NoLogStream /\ notifications = <<>> /\ undelivered = {}
  /\ outcome = NoOutcome

ParseIdle ==
  pKind = "idle" /\ pTag = "" /\ pStdout = <<>> /\ pStderr = <<>> /\ pResult = <<>>

ResolveIdle == rKind = "idle" /\ rTag = "" /\ rTree = EmptyTree /\ rResult = <<>>

FilesIdle == now = 0 /\ invocations = <<>>

RequestIdle ==
  /\ request = [repoUrl |-> NoValue, branch |-> NoValue, auth |-> NoValue,
                testTypes |-> <<>>]
  /\ hPc = "Idle" /\ cloneResult = <<>> /\ reqResults = NoResults
  /\ httpResponse = NoResponse /\ repoDir = "none"

DetectIdle == dependencies = {} /\ devDependencies = {} /\ detected = <<>>

LoggerIdle ==
  /\ logConfig = Config(NoProgramId, "", "", "") /\ logger = Constructor(logConfig)
  /\ logCall = [results |-> IntEmptyResult, type |-> "unit", repoId |-> NoRepoId]
  /\ logPc = "Idle" /\ storageResult = <<>> /\ blockchainResult = <<>>
  /\ attempts = NoAttempts /\ backups = {} /\ response = NoOutcome

ParseInit ==
  /\ pKind \in {"unit", "integration"}
  /\ pTag \in (IF pKind = "unit" THEN UnitTags ELSE IntTags)
  /\ pStdout \in TextsUpTo(IF pKind = "unit" THEN UnitLines(pTag) ELSE IntLines(pTag), MaxLines)
  /\ pStderr \in ErrTexts
  /\ pResult = <<>>
  /\ RunIdle /\ ResolveIdle /\ FilesIdle /\ LoggerIdle /\ RequestIdle /\ DetectIdle

ParseStep ==
  /\ pKind # "idle"
  /\ pResult = <<>>
  /\ pResult' = <<ParseResults(pKind, pStdout, pStderr, pTag)>>
  /\ UNCHANGED <<pKind, pTag, pStdout, pStderr, runVars, resolveVars, fileVars, loggerVars,
                 requestVars, detectVars>>

SpecParse == ParseInit /\ [][ParseStep]_vars

\* =========================================== the resolution of the command
ResolveInit ==
  /\ rKind \in {"unit", "integration"}
  /\ rTag \in (IF rKind = "unit" THEN UnitTags ELSE IntTags)
  /\ rTree \in ResolveTrees
  /\ rResult = <<>>
  /\ ParseIdle /\ RunIdle /\ FilesIdle /\ LoggerIdle /\ RequestIdle /\ DetectIdle

\* await this._determineTestCommand(repoPath, projectType) (unit) or
\* await this._determineIntegrationTestCommand(repoPath, projectType)
ResolveStep ==
  /\ rKind # "idle" /\ rResult = <<>>
  /\ \E pipListHasPytest \in BOOLEAN :
       rResult' = <<IF rKind = "unit"
                    THEN UnitDetermineTestCommand(rTree, rTag, pipListHasPytest)
                    ELSE IntDetermineIntegrationTestCommand(rTree, rTag)>>
  /\ UNCHANGED <<rKind, rTag, rTree, parseVars, runVars, fileVars, loggerVars,
                 requestVars, detectVars>>

SpecResolve == ResolveInit /\ [][ResolveStep]_vars

\* ============================== the detection of the integration agent
\* the names a manifest may declare, and those it may declare as production
\* dependencies
DepNames ==
  {"cypress", "@playwright/test", "protractor", "jest", "@testing-library/react",
   "@testing-library/vue", "mocha", "supertest", "express"}

ProductionDepNames == {"cypress", "jest", "mocha", "express"}

\* the repository: .git and a package.json that parses
ManifestTree(deps) == Tree({".git", "package.json"}, "ok", deps, {}, {}, {})

DetectInit ==
  /\ dependencies \in SUBSET ProductionDepNames
  /\ devDependencies \in SUBSET DepNames
  /\ detected = <<>>
  /\ ParseIdle /\ RunIdle /\ ResolveIdle /\ FilesIdle /\ LoggerIdle /\ RequestIdle

\* await this._detectProjectType(repoPath)
DetectStep ==
  /\ detected = <<>>
  /\ detected' =
       <<IntDetectProjectType(ManifestTree(MergedDeps(dependencies, devDependencies)))>>
  /\ UNCHANGED <<dependencies, devDependencies, parseVars, runVars, resolveVars, fileVars,
                 loggerVars, requestVars>>

SpecDetect == DetectInit /\ [][DetectStep]_vars

\* ======================================================= runTests, step by step
Init ==
  /\ kind \in {"unit", "integration"}
  /\ repoPathOk \in BOOLEAN
  /\ testCommand \in Overrides
  /\ tree \in Trees
  /\ pc = "Start" /\ stageLog = <<>> /\ projectType = "" /\ command = NoCommand
  /\ ex = NoExecution /\ spawns = 0 /\ probes = 0 /\ parserCalls = 0
  /\ logStream = NoLogStream /\ notifications = <<>> /\ undelivered = {}
  /\ outcome = NoOutcome
  /\ ParseIdle /\ ResolveIdle /\ FilesIdle /\ LoggerIdle /\ RequestIdle /\ DetectIdle

\* the notifications after one more, and those not delivered
Sent(notes, status) == Append(notes, status)

Lost(lost, status, delivered) == IF delivered THEN lost ELSE lost \cup {status}

\* The catch block of runTests, entered with error after the stages, the
\* notifications notes (lost: not delivered) and the log stream log:
\* logStream.write(error), notify error, logStream.end(), throw the wrapped
\* error.  The unit agent has no log stream.
Fail(error, stages, notes, lost, log) ==
  \E delivered \in BOOLEAN :
    LET c == NotifyCoralProtocol(delivered)
        written == LogWrite(log, "runTests", <<>>)
    IN  /\ notifications' = Sent(notes, "error")
        /\ undelivered' = Lost(lost, "error", delivered)
        /\ stageLog' = Append(stages, "Failed")
        /\ pc' = "Ended"
        /\ IF c.threw
           THEN logStream' = written /\ outcome' = Raises(c.error)
           ELSE logStream' = LogEnd(written) /\ outcome' = Raises(WrapError(kind, error))

\* The end of the try block: notify completed, logStream.end(), return results
Return(results, stages, notes, lost, log) ==
  \E delivered \in BOOLEAN :
    LET c == NotifyCoralProtocol(delivered)
    IN  IF c.threw
        THEN Fail(c.error, stages, Sent(notes, "completed"),
                  Lost(lost, "completed", delivered), log)
        ELSE /\ notifications' = Sent(notes, "completed")
             /\ undelivered' = Lost(lost, "completed", delivered)
             /\ stageLog' = Append(stages, "Done")
             /\ pc' = "Ended"
             /\ logStream' = LogEnd(log)
             /\ outcome' = Returns(results)

\* the step goes on inside the try block
GoOn(next, stages, log) ==
  /\ pc' = next
  /\ stageLog' = stages
  /\ logStream' = log
  /\ UNCHANGED <<notifications, undelivered, outcome>>

\* runTests up to its first await: the validation of repoPath, the log stream
\* (integration), the started notification
Begin ==
  /\ pc = "Start"
  /\ UNCHANGED <<inputs, projectType, command, ex, spawns, probes, parserCalls, besidesRun>>
  /\ IF ~repoPathOk
     THEN /\ pc' = "Ended"
          /\ outcome' = Raises(PathError)
          /\ UNCHANGED <<stageLog, logStream, notifications, undelivered>>
     ELSE \E delivered \in BOOLEAN :
            LET c == NotifyCoralProtocol(delivered)
                log == IF kind = "integration" THEN CreateWriteStream ELSE logStream
            IN  IF c.threw
                THEN Fail(c.error, stageLog, Sent(notifications, "started"),
                          Lost(undelivered, "started", delivered), log)
                ELSE /\ pc' = "Detect"
                     /\ logStream' = log
                     /\ notifications' = Sent(notifications, "started")
                     /\ undelivered' = Lost(undelivered, "started", delivered)
                     /\ UNCHANGED <<stageLog, outcome>>

\* await this._detectProjectType(repoPath); the integration agent returns the
\* result of an empty repository at once
Detect ==
  /\ pc = "Detect"
  /\ UNCHANGED <<inputs, command, ex, spawns, probes, parserCalls, besidesRun>>
  /\ LET c == DetectProjectType(kind, tree)
         stages == Append(stageLog, "Detecting")
     IN  /\ projectType' = c.tag
         /\ IF c.threw
            THEN Fail(Rejected(<<c.message>>), stages, notifications, undelivered, logStream)
            ELSE IF kind = "integration" /\ c.tag = "empty"
            THEN Return(IntEmptyResult, stages, notifications, undelivered, logStream)
            ELSE GoOn("Resolve", stages, logStream)

\* testCommand || await this._determine...; if (!command) throw
Resolve ==
  /\ pc = "Resolve"
  /\ UNCHANGED <<inputs, projectType, ex, spawns, parserCalls, besidesRun>>
  /\ \E pipListHasPytest \in
          (IF UsesPipList(kind, testCommand, projectType) THEN BOOLEAN ELSE {FALSE}) :
       LET resolved == ResolveCommand(kind, testCommand, tree, projectType, pipListHasPytest)
           stages == Append(stageLog, "ResolvingCommand")
       IN  /\ command' = resolved.result
           /\ probes' = probes + (IF UsesPipList(kind, testCommand, projectType) THEN 1 ELSE 0)
           /\ IF resolved.threw
              THEN Fail(Rejected(<<resolved.message>>), stages, notifications, undelivered,
                        logStream)
              ELSE IF CommandMissing(resolved.result)
              THEN Fail(NoCommandError, stages, notifications, undelivered, logStream)
              ELSE GoOn("Spawn", stages, logStream)

\* logStream.write(command) and the start of the test process: execAsync
\* (unit), _executeCommand up to the end of the promise's executor (integration)
Spawn ==
  /\ pc = "Spawn"
  /\ UNCHANGED <<inputs, projectType, command, probes, parserCalls, besidesRun>>
  /\ spawns' = spawns + 1
  /\ ex' = Spawned(IF kind = "unit" THEN UnitTimeout ELSE IntTimeout)
  /\ GoOn("Await", Append(stageLog, "Running"), LogWrite(logStream, "runTests", <<>>))

\* child_process.exec calls back (unit)
ExecDone ==
  /\ kind = "unit" /\ ex.running
  /\ \E end \in ExecEnds(command) : ex' = ExecAsync(end[1], end[2], end[3])
  /\ UNCHANGED <<inputs, pc, stageLog, projectType, command, spawns, probes, parserCalls,
                 logStream, notifications, undelivered, outcome, besidesRun>>

\* the events of the child of _executeCommand (integration); they go on
\* arriving after the promise has settled and after runTests has ended
ProcessEvent(after, log) ==
  /\ ex' = after
  /\ logStream' = log
  /\ UNCHANGED <<inputs, pc, stageLog, projectType, command, spawns, probes, parserCalls,
                 notifications, undelivered, outcome, besidesRun>>

StdoutData ==
  /\ kind = "integration" /\ ex.running /\ Len(ex.stdout) < MaxChunks
  /\ \E chunk \in OutChunks :
       ProcessEvent(OnStdoutData(ex, chunk), LogWrite(logStream, "stdout", chunk))

StderrData ==
  /\ kind = "integration" /\ ex.running /\ Len(ex.stderr) < MaxErrChunks
  /\ \E chunk \in ErrChunks :
       ProcessEvent(OnStderrData(ex, chunk), LogWrite(logStream, "stderr", chunk))

Close ==
  /\ kind = "integration" /\ ex.running
  /\ \E code \in {"0", "1", "null"} :
       ProcessEvent(OnClose(ex, code), LogWrite(logStream, "close", <<>>))

ProcessError ==
  /\ kind = "integration" /\ ex.running /\ ~ex.errored
  /\ ProcessEvent(OnError(ex), LogWrite(logStream, "error", <<>>))

Timeout ==
  /\ kind = "integration" /\ ex.timer = "armed"
  /\ ProcessEvent(OnTimeout(ex), logStream)

\* the await of the process returns: parse, notify completed, return
Complete ==
  /\ pc = "Await" /\ ex.promise # <<>> /\ ex.promise[1].state = "resolved"
  /\ UNCHANGED <<inputs, projectType, command, ex, spawns, probes, besidesRun>>
  /\ parserCalls' = parserCalls + 1
  /\ Return(ParseResults(kind, ex.promise[1].stdout[1], ex.promise[1].stderr[1], projectType),
            Append(stageLog, "Parsing"), notifications, undelivered, logStream)

\* a catch block that launches the command once more before it gives up
AbortRetries ==
  /\ pc = "Await" /\ ex.promise # <<>> /\ ex.promise[1].state = "rejected"
  /\ UNCHANGED <<inputs, projectType, command, ex, spawns, probes, parserCalls, besidesRun>>
  /\ IF spawns < 2
     THEN GoOn("Spawn", stageLog, logStream)
     ELSE Fail(ex.promise[1], stageLog, notifications, undelivered, logStream)

\* the await of the process throws: the catch block
Abort ==
  /\ pc = "Await" /\ ex.promise # <<>> /\ ex.promise[1].state = "rejected"
  /\ UNCHANGED <<inputs, projectType, command, ex, spawns, probes, parserCalls, besidesRun>>
  /\ Fail(ex.promise[1], stageLog, notifications, undelivered, logStream)

Next ==
  \/ Begin \/ Detect \/ Resolve \/ Spawn \/ ExecDone
  \/ StdoutData \/ StderrData \/ Close \/ ProcessError \/ Timeout
  \/ Complete \/ Abort

Spec == Init /\ [][Next]_vars

\* The steps of runTests are continuations the event loop runs once they
\* are ready, and a timer that is armed and not cleared expires; the data,
\* close and error events depend on the child and may never come.
RunTestsStep == Begin \/ Detect \/ Resolve \/ Spawn \/ Abort

\* Complete can take a step exactly when the awaited promise has resolved
CompleteReady == pc = "Await" /\ ex.promise # <<>> /\ ex.promise[1].state = "resolved"

\* weak fairness of Complete, its enabling condition written out
CompleteFair == []<>(~CompleteReady) \/ []<><<Complete>>_vars

Fairness == WF_vars(RunTestsStep) /\ CompleteFair /\ WF_vars(Timeout)

\* whether the await ends does not depend on what the repository holds: two
\* of the repositories are enough
LiveInit == Init /\ tree \in {EmptyTree, JestTree}

SpecLive == LiveInit /\ [][Next]_vars /\ Fairness

\* ============================== the files of overlapping integration runs
FilesInit ==
  /\ now = 0 /\ invocations = <<>>
  /\ ParseIdle /\ RunIdle /\ ResolveIdle /\ LoggerIdle /\ RequestIdle /\ DetectIdle

\* the invocations under way
Active == {i \in 1..Len(invocations) : invocations[i].active}

\* time passes
Tick ==
  /\ now < MaxTicks
  /\ now' = now + 1
  /\ UNCHANGED <<invocations, parseVars, runVars, resolveVars, loggerVars, requestVars, detectVars>>

\* runTests is called: it names its log file and opens it
StartRun ==
  /\ Len(invocations) < MaxRuns
  /\ \E id \in RepoIds, capture \in BOOLEAN :
       invocations' = Append(invocations, Invocation(id, capture, now, Active))
  /\ UNCHANGED <<now, parseVars, runVars, resolveVars, loggerVars, requestVars, detectVars>>

\* if (captureScreenshots) fs.mkdirSync(screenshotDir, { recursive: true })
MakeScreenshotDir ==
  /\ \E i \in Active :
       /\ invocations[i].captureScreenshots /\ invocations[i].screenshotDir = <<>>
       /\ invocations' =
            [invocations EXCEPT ![i].screenshotDir =
               <<ScreenshotDir(invocations[i].repoId, invocations[i].timestamp)>>]
  /\ UNCHANGED <<now, parseVars, runVars, resolveVars, loggerVars, requestVars, detectVars>>

\* runTests returns or throws
EndRun ==
  /\ \E i \in Active : invocations' = [invocations EXCEPT ![i].active = FALSE]
  /\ UNCHANGED <<now, parseVars, runVars, resolveVars, loggerVars, requestVars, detectVars>>

FilesNext == Tick \/ StartRun \/ MakeScreenshotDir \/ EndRun

SpecFiles == FilesInit /\ [][FilesNext]_vars

\* ================================================ logResults, step by step
LogInit ==
  /\ logConfig \in Configs /\ logger = Constructor(logConfig)
  /\ logCall \in LogCalls
  /\ logPc = "Start" /\ storageResult = <<>> /\ blockchainResult = <<>>
  /\ attempts = NoAttempts /\ backups = {} /\ response = NoOutcome
  /\ ParseIdle /\ RunIdle /\ ResolveIdle /\ FilesIdle /\ RequestIdle /\ DetectIdle

\* The rest of logResults, from the call of _saveLocalBackup on, with
\* storage and blockchain what the call has got so far and made the calls it
\* has made so far: fs.writeFileSync writes the file or throws; when it
\* throws, the catch block calls _saveLocalBackup again, without storage and
\* blockchain, and that call writes the file or throws too
SaveAndReturn(storage, blockchain, made) ==
  /\ logPc' = "Ended"
  /\ storageResult' = storage /\ blockchainResult' = blockchain
  /\ \E written \in BOOLEAN :
       IF written
       THEN /\ attempts' = [made EXCEPT !.saveLocalBackup = @ + 1]
            /\ backups' = backups \cup {Backup(logCall, storage, blockchain)}
            /\ response' = Returns(Response(logCall, storage, blockchain))
       ELSE /\ attempts' = [made EXCEPT !.saveLocalBackup = @ + 2]
            /\ \E writtenThen \in BOOLEAN :
                 IF writtenThen
                 THEN /\ backups' = backups \cup {Backup(logCall, <<>>, <<>>)}
                      /\ response' = Returns(FailureResponse(logCall, "write failed"))
                 ELSE /\ backups' = backups
                      /\ response' = Raises(Rejected(<<"write failed">>))

\* logResults up to its first await: without ipfsClient nothing is stored;
\* _storeResults throws at once for a storage type other than ipfs, which
\* the inner catch block takes, and calls ipfsClient.storeBlob otherwise
LogResults ==
  /\ logPc = "Start"
  /\ UNCHANGED <<logConfig, logger, logCall, parseVars, runVars, resolveVars,
                 fileVars, requestVars, detectVars>>
  /\ IF ~logger.ipfsClient
     THEN SaveAndReturn(<<>>, <<>>, attempts)
     ELSE IF logger.storageType # "ipfs"
     THEN SaveAndReturn(<<>>, <<>>, [attempts EXCEPT !.storeResults = @ + 1])
     ELSE /\ logPc' = "Storing"
          /\ attempts' = [attempts EXCEPT !.storeResults = @ + 1, !.storeBlob = @ + 1]
          /\ UNCHANGED <<storageResult, blockchainResult, backups, response>>

\* ipfsClient.storeBlob settles: when it has stored the blob and programId is
\* set, _logToBlockchain returns its simulated transaction; when it failed,
\* the inner catch block goes on with the local backup only
StoreBlobSettles ==
  /\ logPc = "Storing"
  /\ UNCHANGED <<logConfig, logger, logCall, parseVars, runVars, resolveVars,
                 fileVars, requestVars, detectVars>>
  /\ \E stored \in BOOLEAN :
       IF ~stored THEN SaveAndReturn(<<>>, <<>>, attempts)
       ELSE IF logger.programId # <<>>
       THEN SaveAndReturn(<<StorageResult>>, <<BlockchainResult>>,
                          [attempts EXCEPT !.logToBlockchain = @ + 1])
       ELSE SaveAndReturn(<<StorageResult>>, <<>>, attempts)

LogNext == LogResults \/ StoreBlobSettles

SpecLog == LogInit /\ [][LogNext]_vars

\* ===================================== POST /api/run-tests, step by step
RequestInit ==
  /\ request \in Bodies
  /\ hPc = "Received" /\ cloneResult = <<>> /\ reqResults = NoResults
  /\ httpResponse = NoResponse /\ repoDir = "none"
  /\ ParseIdle /\ RunIdle /\ ResolveIdle /\ FilesIdle /\ LoggerIdle /\ DetectIdle

besidesRequest == <<parseVars, runVars, resolveVars, fileVars, loggerVars, detectVars>>

\* catch (error) { res.status(500).json({ error: error.message }) }
Answer500(error) ==
  /\ httpResponse' = ErrorResponse(500, error.message)
  /\ hPc' = "Done"

\* the handler up to its first await: if (!repoUrl) return res.status(400)
Receive ==
  /\ hPc = "Received"
  /\ IF Falsy(request.repoUrl)
     THEN httpResponse' = ErrorResponse(400, UrlRequired.message) /\ hPc' = "Done"
     ELSE hPc' = "Clone" /\ UNCHANGED httpResponse
  /\ UNCHANGED <<request, cloneResult, reqResults, repoDir, besidesRequest>>

\* await repoClonerAgent.cloneRepository({ url: repoUrl, branch, auth })
Clone ==
  /\ hPc = "Clone"
  /\ \E cloned \in BOOLEAN :
       LET c == CloneRepository(CloneParams(request), cloned)
       IN  IF c.kind = "raised"
           THEN Answer500(c.error[1]) /\ UNCHANGED <<cloneResult, repoDir>>
           ELSE /\ cloneResult' = c.result /\ repoDir' = "cloned" /\ hPc' = "Unit"
                /\ UNCHANGED httpResponse
  /\ UNCHANGED <<request, reqResults, besidesRequest>>

RequestNext == Receive \/ Clone

SpecRequest == RequestInit /\ [][RequestNext]_vars

\* The handler from its second step on, entered with the cloneResult a
\* clone step that returned has left: the repository directory is there.
StagesInit ==
  /\ request \in {b \in Bodies : ~Falsy(b.repoUrl)}
  /\ hPc = "Unit"
  /\ cloneResult = <<CloneResult(CloneParams(request).branch)>>
  /\ reqResults = NoResults /\ httpResponse = NoResponse /\ repoDir = "cloned"
  /\ ParseIdle /\ RunIdle /\ ResolveIdle /\ FilesIdle /\ LoggerIdle /\ DetectIdle

\* if (testTypes.includes('unit')) await unitTestAgent.runTests(...)
UnitTests ==
  /\ hPc = "Unit"
  /\ IF "unit" \notin TestTypes(request)
     THEN hPc' = "Integration" /\ UNCHANGED <<reqResults, httpResponse>>
     ELSE \E returned \in BOOLEAN :
            IF returned
            THEN /\ reqResults' = [reqResults EXCEPT !.unitTests = "results"]
                 /\ hPc' = "UnitLog" /\ UNCHANGED httpResponse
            ELSE /\ Answer500(WrapError("unit", Rejected(<<>>)))
                 /\ UNCHANGED reqResults
  /\ UNCHANGED <<request, cloneResult, repoDir, besidesRequest>>

\* await blockchainLogger.logResults(unitTestResults, 'unit', repoId)
UnitLog ==
  /\ hPc = "UnitLog"
  /\ \E returned \in BOOLEAN :
       IF returned
       THEN /\ reqResults' = [reqResults EXCEPT !.unitTests = "logged"]
            /\ hPc' = "Integration" /\ UNCHANGED httpResponse
       ELSE Answer500(Rejected(<<"write failed">>)) /\ UNCHANGED reqResults
  /\ UNCHANGED <<request, cloneResult, repoDir, besidesRequest>>

\* if (testTypes.includes('integration')) await integrationAgent.runTests(...)
IntegrationTests ==
  /\ hPc = "Integration"
  /\ IF "integration" \notin TestTypes(request)
     THEN hPc' = "Respond" /\ UNCHANGED <<reqResults, httpResponse>>
     ELSE \E returned \in BOOLEAN :
            IF returned
            THEN /\ reqResults' = [reqResults EXCEPT !.integrationTests = "results"]
                 /\ hPc' = "IntegrationLog" /\ UNCHANGED httpResponse
            ELSE /\ Answer500(WrapError("integration", Rejected(<<>>)))
                 /\ UNCHANGED reqResults
  /\ UNCHANGED <<request, cloneResult, repoDir, besidesRequest>>

\* await blockchainLogger.logResults(integrationTestResults, 'integration', repoId)
IntegrationLog ==
  /\ hPc = "IntegrationLog"
  /\ \E returned \in BOOLEAN :
       IF returned
       THEN /\ reqResults' = [reqResults EXCEPT !.integrationTests = "logged"]
            /\ hPc' = "Respond" /\ UNCHANGED httpResponse
       ELSE Answer500(Rejected(<<"write failed">>)) /\ UNCHANGED reqResults
  /\ UNCHANGED <<request, cloneResult, repoDir, besidesRequest>>

\* res.json(results); fs.remove(cloneResult.path).catch(...)
Respond ==
  /\ hPc = "Respond"
  /\ httpResponse' = Ok200 /\ hPc' = "Done" /\ repoDir' = "removing"
  /\ UNCHANGED <<request, cloneResult, reqResults, besidesRequest>>

\* fs.remove settles: the directory is gone, or the error is logged and the
\* directory is left
RemoveSettles ==
  /\ repoDir = "removing"
  /\ \E removed \in BOOLEAN : repoDir' = IF removed THEN "removed" ELSE "left"
  /\ UNCHANGED <<request, hPc, cloneResult, reqResults, httpResponse, besidesRequest>>

StagesNext ==
  UnitTests \/ UnitLog \/ IntegrationTests \/ IntegrationLog \/ Respond \/ RemoveSettles

SpecStages == StagesInit /\ [][StagesNext]_vars

\* ================================================================ properties
Ended == pc = "Ended"

Returned0 == outcome.kind = "returned"

Raised0 == outcome.kind = "raised"

\* the test process ran to its end and exited with code 1: it was not
\* killed, and no error event came before the close
ExitedNonZero == ex.code = "1" /\ ~ex.killed /\ ~ex.errored

\* C1: when the test command exits with a non-zero code, the runner of the
\* unit and of the integration agent hands back an outcome, so that runTests
\* parses the output and returns a result
C1_NonZeroExitIsParsed ==
  (Ended /\ ExitedNonZero) =>
    /\ ex.promise[1].state = "resolved"
    /\ parserCalls = 1
    /\ Returned0

\* the place of a stage in the order of the stages; Done and Failed end it
StageRank(stage) ==
  CASE stage = "Detecting" -> 1
    [] stage = "ResolvingCommand" -> 2
    [] stage = "Running" -> 3
    [] stage = "Parsing" -> 4
    [] stage \in {"Done", "Failed"} -> 5

\* C2: the stages of a runTests invocation come in the order Detecting,
\* ResolvingCommand, Running, Parsing, Done; the test process is spawned
\* only once there is a tag and a command, the parser is called only once
\* the process has finished, and nothing follows Done or Failed
C2_StagesInOrder ==
  /\ \A i, j \in 1..Len(stageLog) :
       i < j => StageRank(stageLog[i]) < StageRank(stageLog[j])
  /\ spawns > 0 =>
       /\ spawns = 1
       /\ projectType # "" /\ command # NoCommand
       /\ \E i, j, k \in 1..Len(stageLog) :
            /\ i < j /\ j < k
            /\ stageLog[i] = "Detecting"
            /\ stageLog[j] = "ResolvingCommand"
            /\ stageLog[k] = "Running"
  /\ parserCalls > 0 =>
       /\ parserCalls = 1
       /\ spawns = 1 /\ ~ex.running /\ ex.code = "0"
       /\ \E i \in 1..Len(stageLog) : stageLog[i] = "Parsing"
  /\ (stageLog # <<>> /\ StageRank(stageLog[Len(stageLog)]) = 5) => Ended

C2_Witness ==
  /\ kind = "integration" /\ Ended
  /\ stageLog = <<"Detecting", "ResolvingCommand", "Running", "Parsing", "Done">>

\* C3: when detection yields the tag empty, runTests goes from Detecting to
\* Done: it resolves no command, spawns no process and calls no parser
C3_EmptyShortCircuits ==
  (Ended /\ projectType = "empty") =>
    /\ stageLog = <<"Detecting", "Done">>
    /\ command = NoCommand /\ spawns = 0 /\ parserCalls = 0

\* C4: on a repository with nothing but .git, runTests returns success true,
\* total 1, passed 0, failed 0, skipped 1 and one detail, which is skipped
C4_EmptyRepositoryResult ==
  (Ended /\ repoPathOk /\ tree = EmptyTree) =>
    /\ Returned0
    /\ outcome.result[1].success = "true"
    /\ outcome.result[1].summary = [total |-> 1, passed |-> 0, failed |-> 0, skipped |-> 1]
    /\ Len(outcome.result[1].details) = 1
    /\ outcome.result[1].details[1].status = "skipped"

\* C5: every runTests invocation, one whose repoPath is refused included,
\* notifies started before it detects anything, and then notifies once
\* more: completed if it returns a result, error if it fails
C5_NotificationsOfEveryRun ==
  /\ stageLog # <<>> => (notifications # <<>> /\ notifications[1] = "started")
  /\ Ended =>
       notifications = <<"started", IF Returned0 THEN "completed" ELSE "error">>

\* how runTests ends, as the validation, the detection (no tag when it
\* threw), the command and the process decide it, when no notification fails
OutcomeWhenDelivered ==
  IF ~repoPathOk THEN Raises(PathError)
  ELSE IF projectType = "" THEN Raises(WrapError(kind, Rejected(<<DetectThrew.message>>)))
  ELSE IF kind = "integration" /\ projectType = "empty" THEN Returns(IntEmptyResult)
  ELSE IF command = NoCommand THEN Raises(WrapError(kind, NoCommandError))
  ELSE IF ex.promise[1].state = "rejected" THEN Raises(WrapError(kind, ex.promise[1]))
  ELSE Returns(ParseResults(kind, ex.promise[1].stdout[1], ex.promise[1].stderr[1],
                            projectType))

\* C6: a notification that fails does not change how runTests ends: it
\* returns the same result, or raises the same error, as when every
\* notification is delivered
C6_NotificationFailureChangesNothing == Ended => outcome = OutcomeWhenDelivered

C6_Witness ==
  /\ Ended /\ Returned0 /\ parserCalls = 1
  /\ undelivered = {"started", "completed"}

\* C7: when the timer of _executeCommand expires before the process closes,
\* the process is killed and the call's outcome has no exit code and carries
\* the stdout and stderr captured so far, which the failure runTests raises
\* gives access to
C7_TimeoutKeepsOutput ==
  (kind = "integration" /\ ex.timer = "fired") =>
    /\ ex.killed
    /\ ex.promise[1].code = "absent"
    /\ ex.promise[1].stdout # <<>> /\ ex.promise[1].stderr # <<>>
    /\ (Ended /\ Raised0) =>
         (outcome.error[1].stdout # <<>> /\ outcome.error[1].stderr # <<>>)

\* C8: whatever the order of the timer's expiry and of the data, close and
\* error events of one _executeCommand call, the promise is settled by the
\* first resolve or reject, later ones leave it as it is, and no timer is
\* armed once it is settled
C8_SettlesOnce ==
  kind = "integration" =>
    /\ ex.promise = (IF ex.calls = <<>> THEN <<>> ELSE <<ex.calls[1]>>)
    /\ ex.promise # <<>> => ex.timer # "armed"

C8_Witness ==
  /\ kind = "integration" /\ Len(ex.calls) = 3
  /\ ex.calls[1] # ex.calls[3]
  /\ ex.timer = "fired" /\ ~ex.running

CanonicalFields == {"success", "summary", "details", "rawOutput", "rawError", "timestamp"}

\* C9: runTests ends by returning a result that has all its canonical
\* fields and no error field, or by raising an error that has a message
C9_ResultOrError ==
  Ended =>
    \/ /\ Returned0
       /\ outcome.error = <<>>
       /\ CanonicalFields \subseteq DOMAIN outcome.result[1]
       /\ outcome.result[1].error = <<>>
    \/ /\ Raised0
       /\ outcome.result = <<>>
       /\ outcome.error[1].message # <<>>

\* the Jest parser of the unit agent fell back on the generic parser
C9_Witness ==
  /\ Ended /\ Returned0
  /\ kind = "unit" /\ projectType = "jest"
  /\ JSONParse(outcome.result[1].rawOutput) = <<>>

\* the tags whose parser counts the cases
EnumeratingTags ==
  {"jest", "mocha", "pytest", "python", "maven", "gradle", "rust", "go",
   "cypress", "playwright", "jest-dom", "mocha-supertest", "selenium-python", "behave",
   "selenium-java", "cucumber-java", "rest-assured", "docker-compose"}

\* C10: whatever the output, the summary of a parser that counts the cases
\* has total = passed + failed + skipped
C10_TotalIsSum ==
  (pResult # <<>> /\ pTag \in EnumeratingTags) =>
    pResult[1].summary.total
      = pResult[1].summary.passed + pResult[1].summary.failed + pResult[1].summary.skipped

\* the output the integration parsers read: stdout, a line break, stderr
ParsedOutput == Output(pStdout, pStderr)

\* the match of the summary line 'Tests: P passed, F failed, T total'
JestSummaryMatch == Match(ParsedOutput, JestTestsLine)

\* C11: when the output has the line 'Tests: P passed, F failed, T total',
\* the integration Jest parser returns passed = P, failed = F, total = T,
\* and success is true exactly when F = 0, whatever PASS or FAIL tokens the
\* output has
C11_JestSummaryTakesPrecedence ==
  (pResult # <<>> /\ pKind = "integration" /\ pTag \in {"jest", "jest-dom"}
     /\ JestSummaryMatch # <<>>) =>
    /\ pResult[1].summary.passed = Group(ParsedOutput, JestTestsLine, JestSummaryMatch, 2)
    /\ pResult[1].summary.failed = Group(ParsedOutput, JestTestsLine, JestSummaryMatch, 4)
    /\ pResult[1].summary.total = Group(ParsedOutput, JestTestsLine, JestSummaryMatch, 6)
    /\ pResult[1].success =
         Bool(Group(ParsedOutput, JestTestsLine, JestSummaryMatch, 4) = 0)

\* the tags the switch of the parser sends to _parseGenericResults
GenericTag ==
  IF pKind = "unit"
  THEN pTag \notin {"jest", "mocha", "pytest", "python", "maven", "gradle", "rust", "go",
                    "empty"}
  ELSE pTag \notin {"cypress", "playwright", "jest-dom", "jest", "mocha-supertest",
                    "selenium-python", "pytest", "behave", "selenium-java", "cucumber-java",
                    "rest-assured", "maven", "gradle", "docker-compose"}

\* stdout has none of the words test, spec, should, it, scenario, pass, fail
\* and error, in whatever case
NoKeyword ==
  \A l \in 1..Len(pStdout) :
    \A k \in {"test", "spec", "should", "it", "scenario", "pass", "fail", "error"} :
      ~LineIncludesI(pStdout[l], k)

GenericDefault ==
  /\ pResult[1].success = "true"
  /\ pResult[1].summary = [total |-> 1, passed |-> 1, failed |-> 0, skipped |-> 0]
  /\ pResult[1].details = <<>>

\* C12 as stated: for a tag without a parser of its own and a stdout with
\* no test-like and no outcome keyword, the generic parser returns success
\* true, total 1, passed 1, failed 0, skipped 0 and no details
C12_GenericDefaultAnyStderr ==
  (pResult # <<>> /\ GenericTag /\ NoKeyword) => GenericDefault

\* C12: for a tag without a parser of its own, a stdout with no test-like
\* keyword, no outcome keyword and no 'Exception', and an empty stderr, the
\* generic parser returns success true, total 1, passed 1, failed 0,
\* skipped 0 and no details
C12_GenericDefault ==
  (pResult # <<>> /\ GenericTag /\ NoKeyword
     /\ ~TextIncludes(pStdout, <<"Exception">>) /\ pStderr = <<>>) => GenericDefault

C12_Witness ==
  /\ pResult # <<>> /\ GenericTag /\ pTag = "unknown"
  /\ pStdout = <<<<"ok">>, <<"ok">>>> /\ pStderr = <<>>
  /\ GenericDefault

\* detection is over
Detected == stageLog # <<>>

\* C13: for every repository tree, one whose package.json cannot be parsed
\* included, _detectProjectType returns a tag and does not throw, and
\* runTests does not end in Failed with the error of the manifest
C13_DetectionNeverThrows ==
  Detected =>
    /\ ~DetectProjectType(kind, tree).threw
    /\ projectType # ""
    /\ (Ended /\ Raised0) =>
         outcome.error[1] # WrapError(kind, Rejected(<<DetectThrew.message>>))

\* the caller gave no testCommand and the resolution of the command has
\* returned null
ResolvedNull ==
  /\ testCommand = NoCommand /\ command = NoCommand
  /\ \E i \in 1..Len(stageLog) : stageLog[i] = "ResolvingCommand"

\* C14: with no testCommand and a command resolved to null (tag unknown, or
\* tag node without a script to run), runTests fails with the error that it
\* could not determine the test command, notifies error, and spawns no
\* process
C14_NoCommandFails ==
  ResolvedNull =>
    /\ spawns = 0 /\ ex = NoExecution
    /\ Ended /\ Raised0
    /\ outcome.error[1] = WrapError(kind, NoCommandError)
    /\ notifications = <<"started", "error">>

C14_Witness ==
  /\ ResolvedNull /\ Ended /\ Raised0
  /\ kind = "integration" /\ projectType = "node" /\ tree = NodeTree

\* the test process wrote more than maxBuffer: child_process.exec stopped
\* it and called back with ERR_CHILD_PROCESS_STDIO_MAXBUFFER
Overflowed ==
  /\ kind = "unit" /\ ex.promise # <<>>
  /\ ex.promise[1].code = "ERR_CHILD_PROCESS_STDIO_MAXBUFFER"

\* C15: when the process writes more than the buffer maximum, the excess is
\* cut off and the run still ends with a result, whose rawOutput is the
\* part that was captured, and does not fail
C15_OverflowIsTruncated ==
  (Ended /\ Overflowed) =>
    /\ Returned0
    /\ outcome.result[1].rawOutput = ex.stdout

\* the test process ended in a failure: a non-zero exit, a spawn error, a
\* timeout
ProcessFailed == ex.promise # <<>> /\ ex.promise[1].state = "rejected"

\* C16: one runTests invocation launches the test command at most once: a
\* non-zero exit, a spawn error or a timeout is not followed by another
\* launch, and runTests raises that failure
C16_NoRetry ==
  /\ spawns <= 1
  /\ (Ended /\ ProcessFailed) =>
       /\ spawns = 1
       /\ Raised0
       /\ outcome.error[1] = WrapError(kind, ex.promise[1])

C16_Witness ==
  /\ Ended /\ Raised0 /\ spawns = 1
  /\ kind = "integration" /\ ex.timer = "fired"
  /\ ex.promise[1].message = <<"Command timed out">>

\* C17: two runTests invocations of the integration agent that overlap in
\* time, whatever their repoId and however close their starts, never have
\* the same log file or the same screenshot directory
C17_FilesArePerInvocation ==
  \A j \in 1..Len(invocations) :
    \A i \in invocations[j].overlaps :
      /\ invocations[i].logFile # invocations[j].logFile
      /\ invocations[i].screenshotDir # <<>> =>
           invocations[i].screenshotDir # invocations[j].screenshotDir

\* the logResults call has returned
LogReturned == logPc = "Ended" /\ response.kind = "returned"

\* C18: a logResults call that returns has written a backup file that holds
\* the results, and its response gives the path of that file as localBackup,
\* whether storage and blockchain logging succeeded, failed or were skipped
C18_BackupOfEveryReturn ==
  LogReturned =>
    /\ response.result[1].localBackup # <<>>
    /\ \E file \in backups :
         /\ file.path = response.result[1].localBackup[1]
         /\ file.data.results = logCall.results

\* the call returns from its catch block, and one that stored the results
C18_Witness ==
  /\ LogReturned /\ response.result[1].success = "false"
  /\ attempts.storeBlob = 1 /\ attempts.saveLocalBackup = 2
  /\ backups # {}

\* no NFT.Storage API key, in the configuration or in the environment
KeyMissing == logConfig.ipfsApiKey = "" /\ logConfig.envApiKey = ""

\* the key is there and the program ID is missing or not valid
KeyButNoProgram == ~KeyMissing /\ ~IsValidPublicKey(logConfig.programId)

\* neither storage nor blockchain logging has been attempted
NothingAttempted ==
  attempts.storeResults = 0 /\ attempts.storeBlob = 0 /\ attempts.logToBlockchain = 0

\* the response is a success that has the local backup and nothing else
LocalBackupOnly ==
  /\ LogReturned
  /\ response.result[1].success = "true"
  /\ response.result[1].localBackup # <<>>
  /\ response.result[1].storage = <<>> /\ response.result[1].blockchain = <<>>

WantedScripts == IF rKind = "unit" THEN {"test"} ELSE {"test:integration", "integration", "e2e"}

\* the manifest cannot be read, or has none of the scripts looked for
NoMatchingScript ==
  \/ ~Exists(rTree, "package.json")
  \/ rTree.manifest # "ok"
  \/ rTree.scripts \cap WantedScripts = {}

\* C19: for every tag and every repository, one tagged node whose manifest
\* cannot be read or parsed included, the resolution of the command returns
\* and does not throw; it returns null for the tag unknown and for the tag
\* node without a script it looks for
C19_ResolutionNeverThrows ==
  rResult # <<>> =>
    /\ ~rResult[1].threw
    /\ rTag = "unknown" => rResult[1].result = NoCommand
    /\ (rTag = "node" /\ NoMatchingScript) => rResult[1].result = NoCommand
    /\ (rTag = "node" /\ ~NoMatchingScript) => rResult[1].result # NoCommand

C19_Witness ==
  /\ rResult # <<>> /\ rTag = "node" /\ rTree = MalformedTree
  /\ rResult[1] = Returned(NoCommand)

\* the try block of the unit agent's Jest or Mocha parser threw
JsonAttempt ==
  IF pTag = "jest" THEN UnitJestTry(pStdout, StandardResult(pStdout, pStderr))
  ELSE UnitMochaTry(pStdout, StandardResult(pStdout, pStderr))

JsonAttemptFailed ==
  pResult # <<>> /\ pKind = "unit" /\ pTag \in {"jest", "mocha"} /\ JsonAttempt.threw

\* C21: when the try block of the unit agent's Jest or Mocha parser throws,
\* _parseTestResults returns what the generic parser returns for the same
\* stdout on a fresh result, and its summary has
\* total = passed + failed + skipped
C21_FallbackStartsFresh ==
  JsonAttemptFailed =>
    /\ pResult[1] = UnitParseGenericResults(pStdout, <<>>, StandardResult(pStdout, pStderr))
    /\ pResult[1].summary.total
         = pResult[1].summary.passed + pResult[1].summary.failed
           + pResult[1].summary.skipped

\* C22: no write reaches the log stream of the integration agent after
\* runTests has called logStream.end(): the data, close and error events of
\* a process that was killed by the timer do not write to the ended stream
C22_NoWriteAfterEnd == ~logStream.late

\* C23: in the result of every parser of either agent, success and the count
\* of failures agree: success true implies failed = 0, and failed > 0
\* implies success false
C23_SuccessAgreesWithFailed ==
  pResult # <<>> =>
    /\ pResult[1].success = "true" => pResult[1].summary.failed = 0
    /\ pResult[1].summary.failed > 0 => pResult[1].success = "false"

\* what the log stream holds of one stream of the process, in the order of
\* the writes
RECURSIVE SinkText(_, _)
SinkText(written, src) ==
  IF written = <<>> THEN <<>>
  ELSE (IF Head(written).src = src THEN Head(written).text ELSE <<>>)
       \o SinkText(Tail(written), src)

\* as long as runTests has not ended the log stream, the buffer and the log
\* stream hold the same chunks of each stream in the same order
InBufferAndSink ==
  (kind = "integration" /\ ~logStream.ended) =>
    /\ SinkText(logStream.written, "stdout") = ex.stdout
    /\ SinkText(logStream.written, "stderr") = ex.stderr

\* a step that changes a buffer puts one chunk at its end and writes that
\* chunk at the end of the log stream
ChunkAppended(before, after, chunks, src) ==
  \/ after = before
  \/ \E chunk \in chunks :
       /\ after = before \o chunk
       /\ (logStream.open /\ ~logStream.ended) =>
            logStream'.written = Append(logStream.written, [src |-> src, text |-> chunk])

\* nothing written to the log stream is taken back or moved
WrittenKept ==
  /\ Len(logStream'.written) >= Len(logStream.written)
  /\ SubSeq(logStream'.written, 1, Len(logStream.written)) = logStream.written

ArrivalStep ==
  kind = "integration" =>
    /\ ChunkAppended(ex.stdout, ex'.stdout, OutChunks, "stdout")
    /\ ChunkAppended(ex.stderr, ex'.stderr, ErrChunks, "stderr")
    /\ WrittenKept

\* C24: for stdout and for stderr, each data event of _executeCommand puts
\* its chunk at the end of the buffer and at the end of the log stream, so
\* both hold the chunks in the order of arrival, and every chunk that
\* arrived before the call settled is in both
C24_ArrivalOrderKept == [](InBufferAndSink) /\ [][ArrivalStep]_vars

\* two different stdout chunks and a stderr chunk arrived before the process
\* closed
C24_Witness ==
  /\ kind = "integration" /\ ex.promise # <<>> /\ ~logStream.ended
  /\ Len(ex.stdout) = 2 /\ ex.stdout[1] # ex.stdout[2] /\ Len(ex.stderr) = 1
  /\ SinkText(logStream.written, "stdout") = ex.stdout
  /\ Len(logStream.written) >= 4

\* the _executeCommand call of runTests is pending
CallPending == kind = "integration" /\ spawns > 0 /\ ex.promise = <<>>

\* C25: the timer is armed for every _executeCommand call runTests makes,
\* and, the timer expiring when it is armed, every call settles and runTests
\* of the integration agent ends, also when the process never emits close
\* or error
C25_EveryCallSettles ==
  /\ [](CallPending => ex.timer = "armed")
  /\ (kind = "integration" /\ pc = "Await") ~> (ex.promise # <<>>)
  /\ (kind = "integration" /\ pc = "Await") ~> (pc = "Ended")

\* the process emitted neither close nor error, and the timer settled the call
C25_Witness ==
  /\ kind = "integration" /\ pc = "Ended"
  /\ ex.running /\ ~ex.errored /\ ex.timer = "fired"
  /\ ex.promise = <<Rejected(<<"Command timed out">>)>>

\* the request was answered that the repository URL is required
AnsweredUrlRequired == hPc = "Done" /\ httpResponse.error = UrlRequired.message

\* C26: a request that carries a non-empty repoUrl gets past the URL check
\* of the clone step: a request is answered that the repository URL is
\* required only when its body has no repoUrl, and then with status 400
C26_UrlReachesCloner ==
  AnsweredUrlRequired => (Falsy(request.repoUrl) /\ httpResponse.status = 400)

\* the handler has answered a request whose clone step had returned
AnsweredAfterClone == hPc = "Done" /\ cloneResult # <<>>

C27_SuccessIsBoolean ==
  pResult # <<>> => pResult[1].success \in {"true", "false"}

\* the rules of the detector in their order: a tag and the sets of names of
\* which one must be declared in full
ManifestRules ==
  <<[tag |-> "cypress", needs |-> {{"cypress"}}],
    [tag |-> "playwright", needs |-> {{"@playwright/test"}}],
    [tag |-> "protractor", needs |-> {{"protractor"}}],
    [tag |-> "jest-dom", needs |-> {{"jest", "@testing-library/react"},
                                    {"jest", "@testing-library/vue"}}],
    [tag |-> "jest", needs |-> {{"jest"}}],
    [tag |-> "mocha-supertest", needs |-> {{"mocha", "supertest"}}]>>

\* the rules the declared names match
Matching ==
  {i \in 1..Len(ManifestRules) :
     \E names \in ManifestRules[i].needs : names \subseteq dependencies \cup devDependencies}

FirstMatch ==
  IF Matching = {} THEN "node"
  ELSE ManifestRules[CHOOSE i \in Matching : \A j \in Matching : i <= j].tag

\* C30: on a manifest the integration detector returns the tag of the first
\* rule, in the order cypress, playwright, protractor, jest with a
\* testing library, jest, mocha with supertest, that the names declared as
\* dependencies or devDependencies match, and node when none does
C30_FirstMatchWins ==
  detected # <<>> => (~detected[1].threw /\ detected[1].tag = FirstMatch)

\* jest is a dependency and cypress a devDependency: the tag is cypress
C30_Witness ==
  /\ detected # <<>>
  /\ "jest" \in dependencies /\ "cypress" \in devDependencies \ dependencies
  /\ detected[1].tag = "cypress"

\* a line of the output has a test-like keyword and an outcome keyword, as
\* the generic parser of the agent called reads them
LooksLikeResult(line) ==
  IF pKind = "unit" THEN UnitGenericLooksLikeTest(line) ELSE IntGenericLooksLikeTest(line)

ResultLines == SelectSeq(SplitLines(ParsedOutput), LooksLikeResult)

====
